---------------------------- MODULE Spec2Model ----------------------------
(***************************************************************************)
(* A model of the stock-picker core: the risk governor and the trade plan  *)
(* engine of trading_strategy.py, the ATR calculator and the opportunity   *)
(* ranker of stock_scanner.py, and the scan-then-plan pipeline of app.py.  *)
(*                                                                         *)
(* Numbers.  The program computes in floats.  The model holds every dollar *)
(* amount and every price in cents, and every percentage and score in      *)
(* hundredths, as integers.  The inputs are chosen so that each product    *)
(* and quotient the program forms on them is exact in that unit, so the    *)
(* integer arithmetic below is the program's arithmetic on those inputs.   *)
(* The one float the integers cannot hold, NaN, is the value NaN below;    *)
(* the arithmetic operators f_sub, f_add, f_mul, f_abs propagate it as     *)
(* IEEE arithmetic does.                                                   *)
(*                                                                         *)
(* Timestamps (datetime.now()) of plans and trade records are left out:    *)
(* nothing in the program reads them back.                                 *)
(***************************************************************************)
EXTENDS Integers, Sequences, FiniteSets, TLC

VARIABLES
    account_size,        \* TradingStrategy.account_size, cents
    max_daily_loss,      \* TradingStrategy.max_daily_loss, cents
    risk_reward_ratio,   \* TradingStrategy.risk_reward_ratio
    daily_pnl,           \* TradingStrategy.daily_pnl, cents
    consecutive_losses,  \* TradingStrategy.consecutive_losses
    trades,              \* TradingStrategy.trades, the trade history
    session_start,       \* history variable: Len(trades) at the last reset_daily_stats
    market,              \* what MarketDataFetcher.get_stock_data yields now, per symbol
    call,                \* the last operation called, with its arguments
    ret,                 \* what that operation returned, under the name of its kind
    threads,             \* the calls in flight on the shared objects: position and locals
    cache                \* MarketDataFetcher.cache, the frames fetched, by cache key

vars == <<account_size, max_daily_loss, risk_reward_ratio, daily_pnl,
          consecutive_losses, trades, session_start, market, call, ret,
          threads, cache>>

config == <<account_size, max_daily_loss, risk_reward_ratio>>
risk_state == <<daily_pnl, consecutive_losses, trades>>

---------------------------------------------------------------------------
(* Bounds of the model *)

\* the most callers at work on one strategy at a time
MaxCallers == 2

\* the longest trade history explored
MaxTrades == 4
\* the longest opportunity list handed to generate_trade_plans
MaxOpps == 3

---------------------------------------------------------------------------
(* Units and float arithmetic *)

Dollars(d) == 100 * d
Pct(p) == 100 * p

NaN == -1073741824

isnan(x) == x = NaN
f_sub(a, b) == IF isnan(a) \/ isnan(b) THEN NaN ELSE a - b
f_add(a, b) == IF isnan(a) \/ isnan(b) THEN NaN ELSE a + b
f_mul(a, b) == IF isnan(a) \/ isnan(b) THEN NaN ELSE a * b
f_abs(a) == IF isnan(a) THEN NaN ELSE IF a < 0 THEN -a ELSE a

Min(a, b) == IF a <= b THEN a ELSE b
Max(a, b) == IF a >= b THEN a ELSE b

RECURSIVE SumSeq(_)
SumSeq(s) == IF s = <<>> THEN 0 ELSE Head(s) + SumSeq(Tail(s))

\* Python's s[:n]: the first n items, and for n < 0 all but the last -n
Slice(s, n) ==
    IF n >= 0 THEN SubSeq(s, 1, Min(n, Len(s)))
    ELSE SubSeq(s, 1, Max(Len(s) + n, 0))

\* Python's None
None == [none |-> TRUE]

---------------------------------------------------------------------------
(* Program constants *)

DEFAULT_ACCOUNT_SIZE == Dollars(10000)
DEFAULT_MAX_DAILY_LOSS == Dollars(100)
DEFAULT_RISK_REWARD_RATIO == 2
DEFAULT_MAX_PLANS == 5
\* faulty variant: twice the risk per trade
max_risk_per_trade_double == Dollars(100)
max_risk_per_trade == Dollars(50)
ATR_PERIOD == 14
MAX_CONSECUTIVE_LOSSES == 3

\* atr_multiplier = 1.5
times_atr_multiplier(x) == IF isnan(x) THEN NaN ELSE (x * 3) \div 2
\* x * 0.97 and x * 1.03, the flat 3% stop
times_097(x) == (x * 97) \div 100
times_103(x) == (x * 103) \div 100
\* account_size * 0.25
quarter_of(x) == (x * 25) \div 100

---------------------------------------------------------------------------
(* Market data, as the fetcher hands it to the strategy *)

\* A bar series (a DataFrame): whether it has the High, Low and Close
\* columns, and its rows.  fails: the fetch raises inside the caller's try.
Bar(h, l, c) == [High |-> h, Low |-> l, Close |-> c]
Frame(rows) == [fails |-> FALSE, columns |-> TRUE, rows |-> rows]

NoData == Frame(<<>>)
NoColumns == [fails |-> FALSE, columns |-> FALSE, rows |-> <<[Open |-> Dollars(100)]>>]
FetchFails == [fails |-> TRUE, columns |-> FALSE, rows |-> <<>>]
\* n bars, all at price k
FlatBars(n, k) == Frame([i \in 1..n |-> Bar(k, k, k)])
\* n bars rising by step from base, each reaching half a step above and below its close
TrendBars(n, base, step) ==
    Frame([i \in 1..n |->
        Bar(base + step * i + step \div 2, base + step * i - step \div 2, base + step * i)])

BarSeriesInputs ==
    { NoData, NoColumns, FetchFails,
      TrendBars(3, Dollars(100), 280),
      FlatBars(ATR_PERIOD, Dollars(100)),
      TrendBars(ATR_PERIOD, Dollars(100), 280),
      TrendBars(ATR_PERIOD + 1, Dollars(100), 280) }

---------------------------------------------------------------------------
(* ATRCalculator *)

\* the true range of row i: the largest of the three ranges, the two that
\* need the previous close being NaN, and skipped by max(axis=1), in row 1
true_range(rows, i) ==
    LET high_low == rows[i].High - rows[i].Low
    IN  IF i = 1 THEN high_low
        ELSE Max(high_low,
                 Max(f_abs(rows[i].High - rows[i - 1].Close),
                     f_abs(rows[i].Low - rows[i - 1].Close)))

\* faulty variant: the mean of the rows there are, as with min_periods=1
rolling_mean_partial(tr, period, i) ==
    IF i < period THEN SumSeq(SubSeq(tr, 1, i)) \div i
    ELSE SumSeq(SubSeq(tr, i - period + 1, i)) \div period

\* tr.rolling(window=period).mean() at row i
rolling_mean(tr, period, i) ==
    IF i < period THEN NaN
    ELSE SumSeq(SubSeq(tr, i - period + 1, i)) \div period

\* the ATR series of a frame: empty when a required column is missing
calculate_atr(data, period) ==
    IF ~data.columns THEN <<>>
    ELSE LET tr == [i \in 1..Len(data.rows) |-> true_range(data.rows, i)]
         IN  [i \in 1..Len(data.rows) |-> rolling_mean(tr, period, i)]

---------------------------------------------------------------------------
(* TradingStrategy: sizing, stop and target *)

\* faulty variant: the 25% limit is tested but the size is not reduced to it
calculate_position_size_uncapped(entry_price, stop_loss_price) ==
    LET risk_per_share == f_abs(f_sub(entry_price, stop_loss_price))
    IN  IF isnan(risk_per_share) \/ risk_per_share <= 0 THEN 0
        ELSE max_risk_per_trade \div risk_per_share

calculate_position_size(entry_price, stop_loss_price) ==
    LET risk_per_share == f_abs(f_sub(entry_price, stop_loss_price))
    IN  IF ~isnan(risk_per_share) /\ risk_per_share <= 0 THEN 0
        ELSE IF isnan(risk_per_share) THEN 0   \* int(nan) raises, caught: return 0
        ELSE LET shares == max_risk_per_trade \div risk_per_share
                 position_value == shares * entry_price
             IN  IF position_value > quarter_of(account_size)
                 THEN quarter_of(account_size) \div entry_price
                 ELSE shares

\* the flat 3% stop of the three fallback branches
fallback_stop(entry_price, direction) ==
    IF direction = "long" THEN times_097(entry_price) ELSE times_103(entry_price)

calculate_stop_loss(symbol, entry_price, direction) ==
    LET data == market[symbol]
    IN  IF data.fails THEN fallback_stop(entry_price, direction)
        ELSE IF data.rows = <<>> THEN fallback_stop(entry_price, direction)
        ELSE LET atr == calculate_atr(data, ATR_PERIOD)
             IN  IF atr = <<>> THEN fallback_stop(entry_price, direction)
                 ELSE LET latest_atr == atr[Len(atr)]
                      IN  IF direction = "long"
                          THEN f_sub(entry_price, times_atr_multiplier(latest_atr))
                          ELSE f_add(entry_price, times_atr_multiplier(latest_atr))

calculate_take_profit(entry_price, stop_loss_price, direction) ==
    LET risk_per_share == f_abs(f_sub(entry_price, stop_loss_price))
        reward_per_share == f_mul(risk_per_share, risk_reward_ratio)
    IN  IF direction = "long"
        THEN f_add(entry_price, reward_per_share)
        ELSE f_sub(entry_price, reward_per_share)

---------------------------------------------------------------------------
(* TradingStrategy: the risk governor *)

\* faulty variant: the daily cap closes the gate only once it is exceeded
can_take_trade_strict_cap ==
    IF daily_pnl < -max_daily_loss THEN FALSE
    ELSE IF consecutive_losses >= MAX_CONSECUTIVE_LOSSES THEN FALSE
    ELSE TRUE

can_take_trade ==
    IF daily_pnl <= -max_daily_loss THEN FALSE
    ELSE IF consecutive_losses >= MAX_CONSECUTIVE_LOSSES THEN FALSE
    ELSE TRUE

---------------------------------------------------------------------------
(* TradingStrategy: plans *)

\* the keys generate_trade_plan reads with opportunity[...]: a missing one
\* raises KeyError, which the method catches, returning None
RequiredKeys == {"symbol", "price", "direction", "score", "deviation_pct"}

\* the body of generate_trade_plan past the gate
plan_for(opportunity) ==
    IF ~(RequiredKeys \subseteq DOMAIN opportunity) THEN None
    ELSE LET symbol == opportunity.symbol
             direction == IF opportunity.direction = "up" THEN "long" ELSE "short"
             entry_price == opportunity.price
             stop_loss == calculate_stop_loss(symbol, entry_price, direction)
             take_profit == calculate_take_profit(entry_price, stop_loss, direction)
             position_size == calculate_position_size(entry_price, stop_loss)
             trade_plan ==
                 [symbol |-> symbol,
                  direction |-> direction,
                  entry_price |-> entry_price,
                  stop_loss |-> stop_loss,
                  take_profit |-> take_profit,
                  position_size |-> position_size,
                  potential_loss |-> f_mul(position_size, f_abs(f_sub(entry_price, stop_loss))),
                  potential_profit |-> f_mul(position_size, f_abs(f_sub(entry_price, take_profit))),
                  risk_reward_ratio |-> risk_reward_ratio,
                  score |-> opportunity.score,
                  deviation_pct |-> opportunity.deviation_pct,
                  has_catalyst |-> IF "has_catalyst" \in DOMAIN opportunity
                                   THEN opportunity.has_catalyst ELSE FALSE]
         IN  IF "catalyst" \in DOMAIN opportunity
             THEN trade_plan @@ [catalyst |-> opportunity.catalyst]
             ELSE trade_plan

\* faulty variant: the plan is made without consulting the gate
generate_trade_plan_ungated(opportunity) == plan_for(opportunity)

generate_trade_plan(opportunity) ==
    IF ~can_take_trade THEN None ELSE plan_for(opportunity)

RECURSIVE plans_of(_)
\* the loop of generate_trade_plans over the opportunities it was cut to
plans_of(opportunities) ==
    IF opportunities = <<>> THEN <<>>
    ELSE LET trade_plan == generate_trade_plan(Head(opportunities))
         IN  IF trade_plan # None
             THEN <<trade_plan>> \o plans_of(Tail(opportunities))
             ELSE plans_of(Tail(opportunities))

\* faulty variant: the batch looks at its first opportunity before the loop, which
\* raises IndexError on an empty list
generate_trade_plans_peek(opportunities, max_plans) ==
    IF opportunities = <<>> THEN [raised |-> "IndexError"]
    ELSE plans_of(Slice(opportunities, max_plans))

generate_trade_plans(opportunities, max_plans) ==
    plans_of(Slice(opportunities, max_plans))

\* the record record_trade_result appends
trade_record(trade_plan, result, actual_profit_loss) ==
    [symbol |-> trade_plan.symbol,
     direction |-> trade_plan.direction,
     entry_price |-> trade_plan.entry_price,
     stop_loss |-> trade_plan.stop_loss,
     take_profit |-> trade_plan.take_profit,
     position_size |-> trade_plan.position_size,
     result |-> result,
     profit_loss |-> actual_profit_loss]

\* faulty variant: a result other than a loss leaves the counter as it is
losses_after_sticky(result) ==
    IF result = "loss" THEN consecutive_losses + 1 ELSE consecutive_losses

\* faulty variant: only a win resets the counter, a breakeven counts as a loss
losses_after_win_only(result) ==
    IF result = "win" THEN 0 ELSE consecutive_losses + 1

\* consecutive_losses after a result
losses_after(result) ==
    IF result = "loss" THEN consecutive_losses + 1 ELSE 0

\* get_trading_summary: the statistics of the whole history; the two
\* quotients are floats in the code, here rounded down to hundredths of a
\* percent and to cents
count_result(history, result) ==
    Cardinality({i \in 1..Len(history) : history[i].result = result})
pnl_of(history, result) ==
    {history[i].profit_loss : i \in {j \in 1..Len(history) : history[j].result = result}}
largest_of(amounts) == CHOOSE a \in amounts : \A b \in amounts : a >= b
smallest_of(amounts) == CHOOSE a \in amounts : \A b \in amounts : a <= b
total_profit_loss_of(history) == SumSeq([i \in 1..Len(history) |-> history[i].profit_loss])
\* faulty variant: the statistics of the records since the last reset
get_trading_summary_session ==
    LET session == SubSeq(trades, session_start + 1, Len(trades))
    IN  IF session = <<>>
        THEN [total_trades |-> 0, winning_trades |-> 0, losing_trades |-> 0, win_rate |-> 0,
              total_profit_loss |-> 0, average_profit_loss |-> 0,
              largest_win |-> 0, largest_loss |-> 0]
        ELSE [total_trades |-> Len(session),
              winning_trades |-> count_result(session, "win"),
              losing_trades |-> count_result(session, "loss"),
              win_rate |-> (count_result(session, "win") * Pct(100)) \div Len(session),
              total_profit_loss |-> total_profit_loss_of(session),
              average_profit_loss |-> total_profit_loss_of(session) \div Len(session),
              largest_win |-> IF pnl_of(session, "win") = {} THEN 0
                              ELSE largest_of(pnl_of(session, "win")),
              largest_loss |-> IF pnl_of(session, "loss") = {} THEN 0
                               ELSE smallest_of(pnl_of(session, "loss")),
              daily_pnl |-> daily_pnl,
              consecutive_losses |-> consecutive_losses]

get_trading_summary ==
    IF trades = <<>>
    THEN [total_trades |-> 0, winning_trades |-> 0, losing_trades |-> 0, win_rate |-> 0,
          total_profit_loss |-> 0, average_profit_loss |-> 0,
          largest_win |-> 0, largest_loss |-> 0]
    ELSE [total_trades |-> Len(trades),
          winning_trades |-> count_result(trades, "win"),
          losing_trades |-> count_result(trades, "loss"),
          win_rate |-> (count_result(trades, "win") * Pct(100)) \div Len(trades),
          total_profit_loss |-> total_profit_loss_of(trades),
          average_profit_loss |-> total_profit_loss_of(trades) \div Len(trades),
          largest_win |-> IF pnl_of(trades, "win") = {} THEN 0
                          ELSE largest_of(pnl_of(trades, "win")),
          largest_loss |-> IF pnl_of(trades, "loss") = {} THEN 0
                           ELSE smallest_of(pnl_of(trades, "loss")),
          daily_pnl |-> daily_pnl,
          consecutive_losses |-> consecutive_losses]

---------------------------------------------------------------------------
(* StockScanner: the opportunity ranker *)

\* whether a result list holds a record of the symbol, and the record the
\* lookup dict {item['symbol']: item} keeps for it: the last one
in_lookup(results, symbol) == \E i \in 1..Len(results) : results[i].symbol = symbol
lookup(results, symbol) ==
    results[CHOOSE i \in 1..Len(results) :
                /\ results[i].symbol = symbol
                /\ \A j \in (i + 1)..Len(results) : results[j].symbol # symbol]

\* the signals, the keys and the points one deviation record collects
deviation_points(dev_item) == Min(f_abs(dev_item.deviation_pct) \div 2, Pct(5))
\* faulty variant: the volume points without the baseline of 1 taken off
volume_points_gross(vol_item) == Min(vol_item.relative_volume, Pct(3))
volume_points(vol_item) == Min(vol_item.relative_volume - Pct(1), Pct(3))
atr_points(atr_item) == Min(atr_item.atr_ratio - Pct(1), Pct(3))
catalyst_points == Pct(3)
strength_points(str_item) ==
    IF str_item.percentile >= Pct(75)
    THEN Min((str_item.percentile - Pct(75)) \div 5, Pct(3))
    ELSE 0

\* faulty variant: two points are enough
MIN_SCORE_two == Pct(2)
\* the minimum score of an opportunity
MIN_SCORE == Pct(3)

opportunity_of(dev_item, volume_results, atr_results, catalyst_results, strength_results) ==
    LET symbol == dev_item.symbol
        has_vol == in_lookup(volume_results, symbol)
        has_atr == in_lookup(atr_results, symbol)
        has_cat == in_lookup(catalyst_results, symbol)
        has_str == in_lookup(strength_results, symbol)
        strong == has_str /\ lookup(strength_results, symbol).percentile >= Pct(75)
        signals ==
            <<[type |-> "price_deviation", value |-> dev_item.deviation_pct]>>
            \o (IF has_vol
                THEN <<[type |-> "high_volume",
                        value |-> lookup(volume_results, symbol).relative_volume]>>
                ELSE <<>>)
            \o (IF has_atr
                THEN <<[type |-> "high_atr",
                        value |-> lookup(atr_results, symbol).atr_ratio]>>
                ELSE <<>>)
            \o (IF has_cat THEN <<[type |-> "catalyst", value |-> 1]>> ELSE <<>>)
            \o (IF strong
                THEN <<[type |-> "high_strength",
                        value |-> lookup(strength_results, symbol).percentile]>>
                ELSE <<>>)
        score ==
            deviation_points(dev_item)
            + (IF has_vol THEN volume_points(lookup(volume_results, symbol)) ELSE 0)
            + (IF has_atr THEN atr_points(lookup(atr_results, symbol)) ELSE 0)
            + (IF has_cat THEN catalyst_points ELSE 0)
            + (IF has_str THEN strength_points(lookup(strength_results, symbol)) ELSE 0)
    IN  [symbol |-> symbol,
         price |-> dev_item.current_price,
         deviation |-> dev_item.deviation_pct,
         direction |-> dev_item.direction,
         signals |-> signals,
         score |-> score]
        @@ (IF has_vol
            THEN [relative_volume |-> lookup(volume_results, symbol).relative_volume]
            ELSE <<>>)
        @@ (IF has_atr
            THEN [atr_ratio |-> lookup(atr_results, symbol).atr_ratio]
            ELSE <<>>)
        @@ (IF has_cat
            THEN [catalyst |-> lookup(catalyst_results, symbol).catalyst_type]
            ELSE <<>>)
        @@ (IF has_str
            THEN [relative_strength |-> lookup(strength_results, symbol).relative_strength,
                  strength_percentile |-> lookup(strength_results, symbol).percentile]
            ELSE <<>>)

\* faulty variant: the list left in the order of the deviation results
sort_by_score_none(s) == s

RECURSIVE sort_by_score(_)
\* list.sort(key=score, reverse=True): descending, equal scores keeping their order
sort_by_score(s) ==
    IF s = <<>> THEN <<>>
    ELSE LET sorted == sort_by_score(SubSeq(s, 1, Len(s) - 1))
             x == s[Len(s)]
             k == Cardinality({i \in 1..Len(sorted) : sorted[i].score >= x.score})
         IN  SubSeq(sorted, 1, k) \o <<x>> \o SubSeq(sorted, k + 1, Len(sorted))

RECURSIVE scored(_, _, _, _, _)
\* the loop over the deviation results, keeping the records that reach MIN_SCORE
scored(deviation_results, volume_results, atr_results, catalyst_results, strength_results) ==
    IF deviation_results = <<>> THEN <<>>
    ELSE LET opportunity == opportunity_of(Head(deviation_results), volume_results,
                                           atr_results, catalyst_results, strength_results)
             rest == scored(Tail(deviation_results), volume_results, atr_results,
                            catalyst_results, strength_results)
         IN  IF opportunity.score >= MIN_SCORE THEN <<opportunity>> \o rest ELSE rest

\* faulty variant: a symbol with a catalyst is an opportunity by that alone
_find_opportunities_any_catalyst(deviation_results, volume_results, atr_results, catalyst_results, strength_results) ==
    LET lone == SelectSeq(catalyst_results,
                          LAMBDA c : ~in_lookup(deviation_results, c.symbol))
    IN  sort_by_score(
            scored(deviation_results, volume_results, atr_results,
                   catalyst_results, strength_results)
            \o [i \in 1..Len(lone) |->
                    [symbol |-> lone[i].symbol, catalyst |-> lone[i].catalyst_type,
                     signals |-> <<[type |-> "catalyst", value |-> 1]>>,
                     score |-> catalyst_points]])

_find_opportunities(deviation_results, volume_results, atr_results, catalyst_results, strength_results) ==
    sort_by_score(scored(deviation_results, volume_results, atr_results,
                         catalyst_results, strength_results))

\* the empty dict {}
EmptyDict == <<>>

\* run_comprehensive_scan, from what its five scans found (scans.fails: an
\* exception escapes inside it, and it returns {})
run_comprehensive_scan(scans) ==
    IF scans.fails THEN EmptyDict
    ELSE [universe_size |-> scans.universe_size,
          deviation_results |-> scans.deviation_results,
          volume_results |-> scans.volume_results,
          atr_results |-> scans.atr_results,
          catalyst_results |-> scans.catalyst_results,
          strength_results |-> scans.strength_results,
          opportunities |-> _find_opportunities(scans.deviation_results,
                                scans.volume_results, scans.atr_results,
                                scans.catalyst_results, scans.strength_results)]

\* scan_results.get('opportunities', [])
opportunities_of(scan_results) ==
    IF "opportunities" \in DOMAIN scan_results THEN scan_results.opportunities ELSE <<>>

---------------------------------------------------------------------------
(* StockScanner: the price-deviation scan *)

\* a frame of closes as get_stock_data returns it: empty when there is no
\* data or the fetch failed, and possibly without a Close column
Closes(closes) == [columns |-> TRUE, closes |-> closes]
NoCloseColumn == [columns |-> FALSE, closes |-> <<Dollars(100)>>]

\* ((current - previous) / previous) * 100, in hundredths of a percent
pct_change(current, previous) == ((current - previous) * 10000) \div previous

\* the record of one symbol, for a frame that is not empty
deviation_item(symbol, data) ==
    LET prev_close == data.closes[1]
        current_price == data.closes[Len(data.closes)]
        deviation_pct == pct_change(current_price, prev_close)
    IN  [symbol |-> symbol,
         current_price |-> current_price,
         prev_close |-> prev_close,
         deviation_pct |-> deviation_pct,
         direction |-> IF deviation_pct > 0 THEN "up" ELSE "down"]

RECURSIVE sort_by_abs_deviation(_)
\* results.sort(key=abs(deviation_pct), reverse=True): descending, stable
sort_by_abs_deviation(s) ==
    IF s = <<>> THEN <<>>
    ELSE LET sorted == sort_by_abs_deviation(SubSeq(s, 1, Len(s) - 1))
             x == s[Len(s)]
             k == Cardinality({i \in 1..Len(sorted) :
                                  f_abs(sorted[i].deviation_pct) >= f_abs(x.deviation_pct)})
         IN  SubSeq(sorted, 1, k) \o <<x>> \o SubSeq(sorted, k + 1, Len(sorted))

RECURSIVE deviation_items_signed(_, _, _)
\* faulty variant: the threshold applied to the deviation itself, not to its size
deviation_items_signed(symbols, frames, min_deviation) ==
    IF symbols = <<>> THEN <<>>
    ELSE LET symbol == Head(symbols)
             data == frames[symbol]
             rest == deviation_items_signed(Tail(symbols), frames, min_deviation)
         IN  IF data.closes = <<>> \/ ~data.columns THEN rest
             ELSE IF deviation_item(symbol, data).deviation_pct >= min_deviation
                  THEN <<deviation_item(symbol, data)>> \o rest
                  ELSE rest

RECURSIVE deviation_items(_, _, _)
\* the loop over the symbols: an empty frame is skipped, a frame without a
\* Close column raises KeyError, which is caught, and the symbol is skipped
deviation_items(symbols, frames, min_deviation) ==
    IF symbols = <<>> THEN <<>>
    ELSE LET symbol == Head(symbols)
             data == frames[symbol]
             rest == deviation_items(Tail(symbols), frames, min_deviation)
         IN  IF data.closes = <<>> \/ ~data.columns THEN rest
             ELSE IF f_abs(deviation_item(symbol, data).deviation_pct) >= min_deviation
                  THEN <<deviation_item(symbol, data)>> \o rest
                  ELSE rest

scan_for_price_deviation(symbols, frames, min_deviation) ==
    sort_by_abs_deviation(deviation_items(symbols, frames, min_deviation))

---------------------------------------------------------------------------
(* StockScanner: relative strength *)

\* the symbols whose daily frame is not empty and has days_needed rows, in
\* the order of the list
RECURSIVE with_history(_, _, _)
with_history(symbols, frames, days_needed) ==
    IF symbols = <<>> THEN <<>>
    ELSE LET data == frames[Head(symbols)]
             rest == with_history(Tail(symbols), frames, days_needed)
         IN  IF data.closes # <<>> /\ Len(data.closes) >= days_needed
             THEN <<Head(symbols)>> \o rest
             ELSE rest

\* performances.items(): symbol and performance over the period; a frame
\* without a Close column raises KeyError, caught, and the symbol is left out
RECURSIVE performances_of(_, _, _)
performances_of(symbols, frames, days_needed) ==
    IF symbols = <<>> THEN <<>>
    ELSE LET data == frames[Head(symbols)]
             rest == performances_of(Tail(symbols), frames, days_needed)
             start_price == data.closes[Len(data.closes) - days_needed + 1]
             current_price == data.closes[Len(data.closes)]
         IN  IF ~data.columns THEN rest
             ELSE <<[symbol |-> Head(symbols),
                     performance |-> pct_change(current_price, start_price)]>> \o rest

RECURSIVE sort_by_performance(_)
\* sorted(..., key=performance, reverse=True): descending, stable
sort_by_performance(s) ==
    IF s = <<>> THEN <<>>
    ELSE LET sorted == sort_by_performance(SubSeq(s, 1, Len(s) - 1))
             x == s[Len(s)]
             k == Cardinality({i \in 1..Len(sorted) : sorted[i].performance >= x.performance})
         IN  SubSeq(sorted, 1, k) \o <<x>> \o SubSeq(sorted, k + 1, Len(sorted))

\* faulty variant: the percentile taken from the rank, not from the index
strength_percentile_by_rank(i, total) ==
    (2 * Pct(100) * (total - (i + 1)) + total) \div (2 * total)

\* 100 - (i / total * 100) for the 0-based index i, in hundredths, rounded
\* to the nearest
strength_percentile(i, total) ==
    (2 * Pct(100) * (total - i) + total) \div (2 * total)

calculate_relative_strength(symbols, frames, period_weeks) ==
    LET days_needed == period_weeks * 7
        ranked_symbols ==
            sort_by_performance(
                performances_of(with_history(symbols, frames, days_needed),
                                frames, days_needed))
    IN  [k \in 1..Len(ranked_symbols) |->
            [symbol |-> ranked_symbols[k].symbol,
             relative_strength |-> ranked_symbols[k].performance,
             rank |-> k,
             percentile |-> strength_percentile(k - 1, Len(ranked_symbols))]]

---------------------------------------------------------------------------
(* StockScanner: the relative-volume scan and the high-ATR scan *)

VOLUME_LOOKBACK == 20

\* MarketDataFetcher.get_relative_volume, in hundredths: today's volume over
\* the mean of the days before; 0 without 20 rows, without a Volume column
\* (KeyError, caught) or with a zero mean
get_relative_volume(data) ==
    IF data.volumes = <<>> \/ Len(data.volumes) < VOLUME_LOOKBACK \/ ~data.columns THEN 0
    ELSE LET before == SubSeq(data.volumes, 1, Len(data.volumes) - 1)
             avg_volume == SumSeq(before) \div Len(before)
             today_volume == data.volumes[Len(data.volumes)]
         IN  IF avg_volume > 0 THEN (today_volume * 100) \div avg_volume ELSE 0

RECURSIVE sort_by_key(_, _)
\* list.sort(key=..., reverse=True): descending in the key, stable
sort_by_key(s, key) ==
    IF s = <<>> THEN <<>>
    ELSE LET sorted == sort_by_key(SubSeq(s, 1, Len(s) - 1), key)
             x == s[Len(s)]
             k == Cardinality({i \in 1..Len(sorted) : sorted[i][key] >= x[key]})
         IN  SubSeq(sorted, 1, k) \o <<x>> \o SubSeq(sorted, k + 1, Len(sorted))

RECURSIVE volume_items_stopping(_, _, _)
\* faulty variant: the first symbol without usable data ends the scan
volume_items_stopping(symbols, frames, min_rel_volume) ==
    IF symbols = <<>> THEN <<>>
    ELSE LET data == frames[Head(symbols)]
             rel_volume == get_relative_volume(data)
             rest == volume_items_stopping(Tail(symbols), frames, min_rel_volume)
         IN  IF data.volumes = <<>> \/ rel_volume = 0 THEN <<>>
             ELSE IF rel_volume >= min_rel_volume
                  THEN <<[symbol |-> Head(symbols), relative_volume |-> rel_volume,
                          current_volume |-> data.volumes[Len(data.volumes)],
                          avg_volume |-> (data.volumes[Len(data.volumes)] * 100)
                                             \div rel_volume]>> \o rest
                  ELSE rest

RECURSIVE volume_items(_, _, _)
\* the loop of scan_for_high_relative_volume; today's frame is the last row
\* of the symbol's daily frame, empty when that is
volume_items(symbols, frames, min_rel_volume) ==
    IF symbols = <<>> THEN <<>>
    ELSE LET data == frames[Head(symbols)]
             rel_volume == get_relative_volume(data)
             rest == volume_items(Tail(symbols), frames, min_rel_volume)
         IN  IF data.volumes = <<>> \/ rel_volume = 0 THEN rest
             ELSE IF rel_volume >= min_rel_volume
                  THEN <<[symbol |-> Head(symbols), relative_volume |-> rel_volume,
                          current_volume |-> data.volumes[Len(data.volumes)],
                          avg_volume |-> (data.volumes[Len(data.volumes)] * 100)
                                             \div rel_volume]>> \o rest
                  ELSE rest

scan_for_high_relative_volume(symbols, frames, min_rel_volume) ==
    sort_by_key(volume_items(symbols, frames, min_rel_volume), "relative_volume")

RECURSIVE atr_values_of(_, _, _)
\* the two loops of scan_for_high_atr that fill atr_values: the symbols with
\* lookback_period rows whose ATR series is not empty; atr_percentage in
\* hundredths of a percent
atr_values_of(symbols, frames, lookback_period) ==
    IF symbols = <<>> THEN <<>>
    ELSE LET data == frames[Head(symbols)]
             rest == atr_values_of(Tail(symbols), frames, lookback_period)
             atr == calculate_atr(data, ATR_PERIOD)
             latest_atr == atr[Len(atr)]
             latest_price == data.rows[Len(data.rows)].Close
         IN  IF data.fails \/ data.rows = <<>> \/ Len(data.rows) < lookback_period THEN rest
             ELSE IF atr = <<>> THEN rest
             ELSE <<[symbol |-> Head(symbols), atr |-> latest_atr, price |-> latest_price,
                     atr_percentage |-> (latest_atr * 10000) \div latest_price]>> \o rest

scan_for_high_atr(symbols, frames, lookback_period) ==
    LET atr_values == atr_values_of(symbols, frames, lookback_period)
        avg_atr_percentage ==
            SumSeq([i \in 1..Len(atr_values) |-> atr_values[i].atr_percentage])
                \div Len(atr_values)
        above == SelectSeq(atr_values, LAMBDA v : v.atr_percentage > avg_atr_percentage)
    IN  IF atr_values = <<>> THEN <<>>
        ELSE sort_by_key([i \in 1..Len(above) |->
                             above[i] @@ [atr_ratio |-> (above[i].atr_percentage * 100)
                                                           \div avg_atr_percentage]],
                         "atr_ratio")

---------------------------------------------------------------------------
(* NewsDataFetcher and the catalyst scan *)

\* A title is a sequence of words.  lower() and the substring test
\* `keyword in title` are tables over the words the inputs use.
catalyst_keywords ==
    <<"earnings", "beat", "miss", "guidance", "upgrade", "downgrade",
      "fda", "approval", "patent", "launch", "partnership", "contract",
      "lawsuit", "settlement", "investigation", "recall", "dividend",
      "split", "buyback", "acquisition", "merger", "spinoff", "ceo",
      "executive", "resignation", "appointed", "clinical", "trial",
      "data", "results", "breakthrough", "innovation">>
avoid_keywords == <<"merger", "buyout", "acquisition">>
MAX_NEWS == 5

\* str.lower() of a word
lower(word) ==
    CASE word = "FDA" -> "fda"
      [] word = "Earnings" -> "earnings"
      [] word = "Mergers" -> "mergers"
      [] OTHER -> word

\* `keyword in word` for a lowercase word: the word itself, or a keyword
\* inside it
word_contains(word, keyword) ==
    \/ word = keyword
    \/ word = "mergers" /\ keyword = "merger"
    \/ word = "database" /\ keyword = "data"

\* `keyword in title`, title being the lowercased title
title_contains(title, keyword) ==
    \E i \in 1..Len(title) : word_contains(title[i], keyword)

lower_title(title) == [i \in 1..Len(title) |-> lower(title[i])]

found_catalysts(title) ==
    SelectSeq(catalyst_keywords, LAMBDA keyword : title_contains(lower_title(title), keyword))
found_avoid(title) ==
    SelectSeq(avoid_keywords, LAMBDA keyword : title_contains(lower_title(title), keyword))

\* faulty variant: a trigger keyword is enough, the keywords to avoid are not looked at
is_catalyst_any_trigger(title) == found_catalysts(title) # <<>>

\* `if found_catalysts and not found_avoid`
is_catalyst(title) == found_catalysts(title) # <<>> /\ found_avoid(title) = <<>>

\* get_stock_news: the first max_news items of the feed; [] when the fetch fails
get_stock_news(feed) == IF feed.fails THEN <<>> ELSE Slice(feed.news, MAX_NEWS)

RECURSIVE first_catalyst(_)
\* the loop of check_for_catalyst over the news items
first_catalyst(news) ==
    IF news = <<>> THEN [has_catalyst |-> FALSE]
    ELSE IF is_catalyst(Head(news).title)
         THEN [has_catalyst |-> TRUE,
               catalyst_type |-> found_catalysts(Head(news).title),
               news_item |-> Head(news)]
         ELSE first_catalyst(Tail(news))

check_for_catalyst(feed) == first_catalyst(get_stock_news(feed))

RECURSIVE check_for_catalysts(_, _)
\* StockScanner.check_for_catalysts: one record per symbol with a catalyst
check_for_catalysts(symbols, feeds) ==
    IF symbols = <<>> THEN <<>>
    ELSE LET catalyst_info == check_for_catalyst(feeds[Head(symbols)])
             rest == check_for_catalysts(Tail(symbols), feeds)
         IN  IF catalyst_info.has_catalyst
             THEN <<[symbol |-> Head(symbols),
                     catalyst_type |-> catalyst_info.catalyst_type,
                     news_title |-> catalyst_info.news_item.title]>> \o rest
             ELSE rest

---------------------------------------------------------------------------
(* Inputs *)

Symbols == {"AAPL", "MSFT", "TSLA"}

\* the three sample opportunities of test.py
SampleAAPL ==
    [symbol |-> "AAPL", price |-> Dollars(150), deviation_pct |-> 520,
     direction |-> "up", has_catalyst |-> TRUE, score |-> 8550,
     catalyst |-> [type |-> <<"earnings">>]]
SampleMSFT ==
    [symbol |-> "MSFT", price |-> Dollars(280), deviation_pct |-> 480,
     direction |-> "up", has_catalyst |-> FALSE, score |-> 7520]
SampleTSLA ==
    [symbol |-> "TSLA", price |-> Dollars(200), deviation_pct |-> -650,
     direction |-> "down", has_catalyst |-> TRUE, score |-> 8210,
     catalyst |-> [type |-> <<"recall">>]]
SampleOpportunities == {SampleAAPL, SampleMSFT, SampleTSLA}

\* every list of at most n items of S
SeqsUpTo(S, n) == UNION {[1..k -> S] : k \in 0..n}

\* the plan test.py records results against: the plan of its first sample
\* opportunity, stopped 3% below the entry
SamplePlan ==
    [symbol |-> "AAPL", direction |-> "long", entry_price |-> Dollars(150),
     stop_loss |-> 14550, take_profit |-> 15900, position_size |-> 11,
     potential_loss |-> 4950, potential_profit |-> 9900,
     risk_reward_ratio |-> DEFAULT_RISK_REWARD_RATIO, score |-> 8550,
     deviation_pct |-> 520, has_catalyst |-> TRUE,
     catalyst |-> [type |-> <<"earnings">>]]

Results == {"win", "loss", "breakeven"}
\* test.py records a win of 100.0 and a loss of -50.0
PnlInputs == {Dollars(-50), Dollars(100)}

\* no symbol has bars / every symbol has a full window of trending bars
MarketDown == [s \in Symbols |-> NoData]
MarketUp == [s \in Symbols |-> TrendBars(ATR_PERIOD + 1, Dollars(100), 280)]

\* what the five scans of one cycle found.  The deviation results are as
\* scan_for_price_deviation leaves them: at least 4% away from the first
\* close, largest deviation first.
DevAAPL ==
    [symbol |-> "AAPL", current_price |-> Dollars(108), prev_close |-> Dollars(100),
     deviation_pct |-> 800, direction |-> "up"]
DevTSLA ==
    [symbol |-> "TSLA", current_price |-> Dollars(190), prev_close |-> Dollars(200),
     deviation_pct |-> -500, direction |-> "down"]
DeviationInputs == {<<>>, <<DevAAPL>>, <<DevAAPL, DevTSLA>>}
VolumeInputs == {<<>>, <<[symbol |-> "TSLA", relative_volume |-> 250]>>}
AtrInputs == {<<>>, <<[symbol |-> "AAPL", atr_ratio |-> 150]>>}
CatalystInputs == {<<>>, <<[symbol |-> "TSLA", catalyst_type |-> <<"fda", "approval">>]>>}
StrengthInputs ==
    {<<>>,
     <<[symbol |-> "MSFT", relative_strength |-> 1000, rank |-> 1, percentile |-> Pct(100)],
       [symbol |-> "TSLA", relative_strength |-> 500, rank |-> 2, percentile |-> Pct(50)]>>}

ScanInputs ==
    [fails : {FALSE}, universe_size : {3}, deviation_results : DeviationInputs,
     volume_results : VolumeInputs, atr_results : AtrInputs,
     catalyst_results : CatalystInputs, strength_results : StrengthInputs]

\* a scan cycle in which an exception escapes
FailedScan ==
    [fails |-> TRUE, universe_size |-> 0, deviation_results |-> <<>>,
     volume_results |-> <<>>, atr_results |-> <<>>, catalyst_results |-> <<>>,
     strength_results |-> <<>>]

\* the scan cycles of the batch machine: every deviation list, with and
\* without the volume and catalyst signals, or failing
BatchScans ==
    {scans \in ScanInputs : scans.atr_results # <<>> /\ scans.strength_results # <<>>}
    \cup {FailedScan}

\* the result lists the ranker is handed: deviation lists largest deviation
\* first, MSFT's 4% alone short of the minimum score; volume lists largest
\* ratio first; strength lists best rank first
DevMSFT ==
    [symbol |-> "MSFT", current_price |-> Dollars(52), prev_close |-> Dollars(50),
     deviation_pct |-> 400, direction |-> "up"]
DevAAPL12 ==
    [symbol |-> "AAPL", current_price |-> Dollars(112), prev_close |-> Dollars(100),
     deviation_pct |-> 1200, direction |-> "up"]
RankDeviationInputs ==
    {<<>>, <<DevAAPL>>, <<DevTSLA>>, <<DevAAPL, DevTSLA>>, <<DevAAPL, DevTSLA, DevMSFT>>,
     <<DevAAPL12, DevTSLA>>}
RankVolumeInputs ==
    {<<>>, <<[symbol |-> "TSLA", relative_volume |-> 500],
             [symbol |-> "MSFT", relative_volume |-> 180]>>}
RankAtrInputs ==
    {<<>>, <<[symbol |-> "AAPL", atr_ratio |-> 150]>>,
     <<[symbol |-> "MSFT", atr_ratio |-> 450], [symbol |-> "AAPL", atr_ratio |-> 150]>>}
RankCatalystInputs ==
    {<<>>, <<[symbol |-> "MSFT", catalyst_type |-> <<"earnings">>],
             [symbol |-> "TSLA", catalyst_type |-> <<"fda", "approval">>]>>}
RankStrengthInputs ==
    {<<>>,
     <<[symbol |-> "MSFT", relative_strength |-> 1000, rank |-> 1, percentile |-> Pct(100)],
       [symbol |-> "TSLA", relative_strength |-> 500, rank |-> 2, percentile |-> Pct(50)]>>,
     <<[symbol |-> "MSFT", relative_strength |-> 1000, rank |-> 1, percentile |-> Pct(100)],
       [symbol |-> "AAPL", relative_strength |-> 500, rank |-> 2, percentile |-> Pct(80)],
       [symbol |-> "TSLA", relative_strength |-> -200, rank |-> 3, percentile |-> Pct(60)]>>}
\* a cycle with MSFT at every cap, AAPL 6% up and TSLA 5% down on their own
CapScans ==
    [deviation_results |->
         <<[symbol |-> "MSFT", current_price |-> Dollars(115), prev_close |-> Dollars(100),
            deviation_pct |-> 1500, direction |-> "up"],
           [symbol |-> "AAPL", current_price |-> Dollars(106), prev_close |-> Dollars(100),
            deviation_pct |-> 600, direction |-> "up"],
           DevTSLA>>,
     volume_results |-> <<[symbol |-> "MSFT", relative_volume |-> 400]>>,
     atr_results |-> <<[symbol |-> "MSFT", atr_ratio |-> 450]>>,
     catalyst_results |-> <<[symbol |-> "MSFT", catalyst_type |-> <<"earnings">>]>>,
     strength_results |->
         <<[symbol |-> "MSFT", relative_strength |-> 1000, rank |-> 1,
            percentile |-> Pct(100)]>>]
RankerInputs ==
    [deviation_results : RankDeviationInputs, volume_results : RankVolumeInputs,
     atr_results : RankAtrInputs, catalyst_results : RankCatalystInputs,
     strength_results : RankStrengthInputs]
    \cup {CapScans}

\* the intraday frames of the three symbols in one scan: none, no Close
\* column, flat, and moves of +5%, -4%, -5% and +8% from the first close to
\* the last
IntradayMarkets ==
    {[AAPL |-> a, MSFT |-> m, TSLA |-> t] :
        a \in {Closes(<<Dollars(100), Dollars(105)>>),
               Closes(<<Dollars(100), Dollars(100)>>),
               Closes(<<Dollars(100), Dollars(102), Dollars(96)>>)},
        m \in {Closes(<<>>), NoCloseColumn, Closes(<<Dollars(100), Dollars(105)>>)},
        t \in {Closes(<<Dollars(200), Dollars(190)>>),
               Closes(<<Dollars(100), Dollars(97), Dollars(108)>>),
               Closes(<<Dollars(100), Dollars(100)>>),
               Closes(<<>>)}}
UniverseInputs == {<<"AAPL", "MSFT", "TSLA">>, <<"TSLA", "AAPL">>}
\* min_deviation: 0, the default 4.0, and 6.0
MinDeviationInputs == {0, Pct(4), Pct(6)}

\* daily histories: n rows closing at start, the last one at current
History(n, start, current) == Closes([i \in 1..n |-> IF i = n THEN current ELSE start])
NoCloseHistory == [columns |-> FALSE, closes |-> [i \in 1..14 |-> 0]]
\* the daily histories of the three symbols: gains of 10% and 5%, a loss of
\* 2%, too few rows, none, no Close column
HistoryMarkets ==
    {[AAPL |-> a, MSFT |-> m, TSLA |-> t] :
        a \in {History(14, Dollars(100), Dollars(105)),
               History(10, Dollars(100), Dollars(105)),
               History(14, Dollars(100), Dollars(98))},
        m \in {History(14, Dollars(100), Dollars(110)), Closes(<<>>),
               History(14, Dollars(100), Dollars(105))},
        t \in {History(14, Dollars(100), Dollars(98)),
               History(14, Dollars(100), Dollars(110)), NoCloseHistory}}
\* period_weeks: 7 and 14 days of history needed
PeriodWeeksInputs == {1, 2}

\* daily volume frames: n rows at the average volume, the last one at today's
Volumes(n, avg, today) ==
    [columns |-> TRUE, volumes |-> [i \in 1..n |-> IF i = n THEN today ELSE avg]]
NoVolumeColumn == [columns |-> FALSE, volumes |-> [i \in 1..21 |-> 0]]
VolumeMarkets ==
    {[AAPL |-> a, MSFT |-> m, TSLA |-> t] :
        a \in {Volumes(21, 1000, 2500), Volumes(21, 1000, 1200), Volumes(5, 1000, 2500)},
        m \in {Volumes(0, 0, 0), NoVolumeColumn, Volumes(21, 1000, 1500)},
        t \in {Volumes(21, 1000, 5000), Volumes(21, 0, 5000)}}

\* daily bars for the high-ATR scan: n bars closing at close, each ranging
\* half above and half below it
RangeBars(n, close, half) == Frame([i \in 1..n |-> Bar(close + half, close - half, close)])
AtrMarkets ==
    {[AAPL |-> a, MSFT |-> m, TSLA |-> t] :
        a \in {RangeBars(20, Dollars(100), 200), RangeBars(20, Dollars(100), 100),
               RangeBars(14, Dollars(100), 200)},
        m \in {NoData, NoColumns, FetchFails, FlatBars(20, Dollars(100))},
        t \in {RangeBars(20, Dollars(100), 100), RangeBars(20, Dollars(50), 150)}}

\* headlines and news feeds
NewsItem(title) == [title |-> title]
Feed(titles) == [fails |-> FALSE, news |-> [i \in 1..Len(titles) |-> NewsItem(titles[i])]]
NewsDown == [fails |-> TRUE, news |-> <<>>]
TitleEarningsMerger == <<"Earnings", "beat", "ahead", "of", "merger">>
TitleFdaApproval == <<"FDA", "approval", "granted">>
TitleMergers == <<"Mergers", "lift", "guidance">>
TitleBuyout == <<"buyout", "talks">>
TitleDatabase == <<"database", "outage">>
TitlePlain == <<"shares", "rise">>
FeedMarkets ==
    {[AAPL |-> a, MSFT |-> m, TSLA |-> t] :
        a \in {NewsDown, Feed(<<>>),
               Feed(<<TitleEarningsMerger>>),
               Feed(<<TitleFdaApproval>>),
               Feed(<<TitlePlain, TitleBuyout>>),
               Feed(<<TitleEarningsMerger, TitleFdaApproval, TitleDatabase>>),
               Feed(<<TitleMergers, TitleDatabase, TitleFdaApproval>>),
               Feed(<<TitlePlain, TitlePlain, TitleBuyout, TitlePlain, TitleMergers,
                      TitleFdaApproval>>)},
        m \in {NewsDown, Feed(<<TitleFdaApproval>>)},
        t \in {Feed(<<TitleEarningsMerger>>), Feed(<<TitleFdaApproval>>)}}

\* the caps generate_trade_plans is called with
MaxPlansInputs == {-1, 0, 2, DEFAULT_MAX_PLANS}

\* the arguments the sizing, stop and target calculations are called with
AccountSizeInputs == {Dollars(1000), DEFAULT_ACCOUNT_SIZE}
EntryInputs == {0, Dollars(100), Dollars(150)}
StopInputs == {Dollars(95), Dollars(97), 9958, Dollars(100), Dollars(103), 14550, NaN}
PriceInputs == {Dollars(100), Dollars(150)}
Directions == {"long", "short"}

\* the markets in which every symbol has the same kind of bar series
UniformMarkets == {[s \in Symbols |-> bars] : bars \in BarSeriesInputs}

---------------------------------------------------------------------------
(* MarketDataFetcher.get_stock_data and the scans of one cycle *)

\* MarketDataFetcher.__init__: self.cache = {}
EmptyCache == <<>>

\* a DataFrame of bars with all its columns, as the scans read it
DataFrame(bars) ==
    [fails |-> FALSE, columns |-> TRUE, rows |-> bars,
     closes |-> [i \in 1..Len(bars) |-> bars[i].Close],
     volumes |-> [i \in 1..Len(bars) |-> bars[i].Volume]]

\* what the data service holds of one symbol: two one-minute bars of today,
\* thirty daily bars, the last of them today's, and the news feed
Listing(open, now, half, volume, today_volume, feed) ==
    [fails |-> FALSE,
     minutes |-> <<[High |-> open, Low |-> open, Close |-> open, Volume |-> 10],
                   [High |-> now, Low |-> now, Close |-> now, Volume |-> 10]>>,
     days |-> [i \in 1..30 |->
                  IF i = 30
                  THEN [High |-> now + half, Low |-> now - half, Close |-> now,
                        Volume |-> today_volume]
                  ELSE [High |-> open + half, Low |-> open - half, Close |-> open,
                        Volume |-> volume]],
     news |-> feed]
Delisted == [fails |-> TRUE, minutes |-> <<>>, days |-> <<>>, news |-> NewsDown]
CycleMarkets ==
    {[AAPL |-> a, MSFT |-> Delisted, TSLA |-> t] :
        a \in {Listing(Dollars(100), Dollars(105), 100, 1000, 2500, Feed(<<TitleFdaApproval>>))},
        t \in {Listing(Dollars(200), Dollars(190), 600, 1000, 1200, Feed(<<TitlePlain>>)),
               Delisted}}

\* faulty variant: the key names the symbol alone
cache_key_symbol(symbol, period, interval, include_premarket) == <<symbol>>

\* cache_key = f"{symbol}_{period}_{interval}_{include_premarket}", the period
\* f"{n}d" held as the number n
cache_key(symbol, period, interval, include_premarket) ==
    <<symbol, period, interval, include_premarket>>

\* stock.history(period, interval, prepost): the bars of the last `period`
\* days, today's one-minute bars or the daily ones
history(symbol, period, interval) ==
    LET days == market[symbol].days
    IN  IF interval = "1m" THEN DataFrame(market[symbol].minutes)
        ELSE DataFrame(SubSeq(days, Max(1, Len(days) - period + 1), Len(days)))

\* get_stock_data: the frame returned and the cache left behind.  A live
\* cache entry is returned as it is; otherwise the frame is fetched and
\* cached, and a failing fetch returns an empty frame that is not cached.
get_stock_data(held, expired, symbol, period, interval) ==
    LET key == cache_key(symbol, period, interval, TRUE)
    IN  IF key \in DOMAIN held /\ ~expired THEN [data |-> held[key], cache |-> held]
        ELSE IF market[symbol].fails THEN [data |-> DataFrame(<<>>), cache |-> held]
        ELSE [data |-> history(symbol, period, interval),
              cache |-> [k \in DOMAIN held \cup {key} |->
                            IF k = key THEN history(symbol, period, interval) ELSE held[k]]]

\* the scans of run_comprehensive_scan, and what each asks the fetcher for
\* each symbol (the relative-volume scan asks twice, the catalyst scan reads
\* the news instead)
ScanNames ==
    <<"scan_for_price_deviation", "scan_for_high_relative_volume", "scan_for_high_atr",
      "check_for_catalysts", "calculate_relative_strength">>
requests_of(scan) ==
    CASE scan = "scan_for_price_deviation" -> <<[period |-> 1, interval |-> "1m"]>>
      [] scan = "scan_for_high_relative_volume" ->
             <<[period |-> VOLUME_LOOKBACK + 1, interval |-> "1d"],
               [period |-> 1, interval |-> "1d"]>>
      [] scan = "scan_for_high_atr" -> <<[period |-> 20 + 10, interval |-> "1d"]>>
      [] scan = "calculate_relative_strength" -> <<[period |-> 2 * 7 + 10, interval |-> "1d"]>>
      [] OTHER -> <<>>

\* the result of a scan from the frames it was handed, with the arguments
\* of the cycle (the strength scan over 2 weeks, which keeps the histories
\* short)
scan_result(scan, symbols, frames) ==
    CASE scan = "scan_for_price_deviation" -> scan_for_price_deviation(symbols, frames, Pct(4))
      [] scan = "scan_for_high_relative_volume" ->
             scan_for_high_relative_volume(symbols, frames, 150)
      [] scan = "scan_for_high_atr" -> scan_for_high_atr(symbols, frames, 20)
      [] scan = "calculate_relative_strength" -> calculate_relative_strength(symbols, frames, 2)
      [] OTHER -> check_for_catalysts(symbols, frames)

\* a scan cycle begins: the five scans are started on the universe, each at
\* its first symbol (again once all have returned, on the cache as it is)
StartCycle ==
    \E symbols \in {<<"AAPL", "TSLA">>, <<"TSLA", "AAPL">>} :
        /\ \A t \in DOMAIN threads : threads[t].pc = "done"
        /\ threads' = [t \in DOMAIN ScanNames |->
                           [pc |-> "fetch", scan |-> ScanNames[t], symbols |-> symbols,
                            i |-> 1, frames |-> <<>>, results |-> <<>>]]
        /\ UNCHANGED <<config, risk_state, session_start, market, call, ret, cache>>

\* a scan fetches the data of its next symbol, through the cache
FetchNext ==
    \E t \in DOMAIN threads, expired \in BOOLEAN :
        LET thread == threads[t]
            symbol == thread.symbols[thread.i]
            requests == requests_of(thread.scan)
            first == get_stock_data(cache, expired, symbol, requests[1].period,
                                    requests[1].interval)
            second == get_stock_data(first.cache, expired, symbol, requests[2].period,
                                     requests[2].interval)
            data == IF requests = <<>> THEN market[symbol].news ELSE first.data
        IN  /\ thread.pc = "fetch"
            /\ thread.i <= Len(thread.symbols)
            /\ cache' = IF requests = <<>> THEN cache
                        ELSE IF Len(requests) = 1 THEN first.cache ELSE second.cache
            /\ threads' = [threads EXCEPT
                               ![t].i = thread.i + 1,
                               ![t].frames = [s \in DOMAIN thread.frames \cup {symbol} |->
                                                 IF s = symbol THEN data ELSE thread.frames[s]]]
            /\ UNCHANGED <<config, risk_state, session_start, market, call, ret>>

\* a scan that has all its data returns its result
FinishScan ==
    \E t \in DOMAIN threads :
        LET thread == threads[t]
            results == scan_result(thread.scan, thread.symbols, thread.frames)
        IN  /\ thread.pc = "fetch"
            /\ thread.i > Len(thread.symbols)
            /\ threads' = [threads EXCEPT ![t].pc = "done", ![t].results = results]
            /\ call' = [op |-> thread.scan, symbols |-> thread.symbols]
            /\ ret' = [results |-> results]
            /\ UNCHANGED <<config, risk_state, session_start, market, cache>>

---------------------------------------------------------------------------
(* Construction *)

\* TradingStrategy.__init__, beside a fresh fetcher, no call in flight
Construct(a, m, r) ==
    /\ account_size = a
    /\ max_daily_loss = m
    /\ risk_reward_ratio = r
    /\ daily_pnl = 0
    /\ consecutive_losses = 0
    /\ trades = <<>>
    /\ session_start = 0
    /\ call = [op |-> "__init__"]
    /\ ret = None
    /\ threads = <<>>
    /\ cache = EmptyCache

---------------------------------------------------------------------------
(* Operations *)

\* faulty variant: a tripped breaker is cleared by the call that reports it
CanTakeTrade_clearing ==
    /\ call' = [op |-> "can_take_trade"]
    /\ ret' = [answer |-> can_take_trade]
    /\ consecutive_losses' = IF consecutive_losses >= 3 THEN 0 ELSE consecutive_losses
    /\ UNCHANGED <<config, daily_pnl, trades, session_start, market, threads, cache>>

GetTradingSummary ==
    /\ call' = [op |-> "get_trading_summary"]
    /\ ret' = [summary |-> get_trading_summary]
    /\ UNCHANGED <<config, risk_state, session_start, market, threads, cache>>

CanTakeTrade ==
    /\ call' = [op |-> "can_take_trade"]
    /\ ret' = [answer |-> can_take_trade]
    /\ UNCHANGED <<config, risk_state, session_start, market, threads, cache>>

\* faulty variant: a result reported while the gate is closed is dropped
RecordTradeResult_gated(Plans, Rs, Pnls) ==
    \E trade_plan \in Plans, result \in Rs, actual_profit_loss \in Pnls :
        /\ Len(trades) < MaxTrades
        /\ daily_pnl' = IF can_take_trade THEN daily_pnl + actual_profit_loss ELSE daily_pnl
        /\ consecutive_losses' = IF can_take_trade THEN losses_after(result)
                                 ELSE consecutive_losses
        /\ trades' = IF can_take_trade
                     THEN Append(trades, trade_record(trade_plan, result, actual_profit_loss))
                     ELSE trades
        /\ call' = [op |-> "record_trade_result", trade_plan |-> trade_plan,
                    result |-> result, actual_profit_loss |-> actual_profit_loss]
        /\ ret' = None
        /\ UNCHANGED <<config, session_start, market, threads, cache>>

RecordTradeResult(Plans, Rs, Pnls) ==
    \E trade_plan \in Plans, result \in Rs, actual_profit_loss \in Pnls :
        /\ Len(trades) < MaxTrades
        /\ daily_pnl' = daily_pnl + actual_profit_loss
        /\ consecutive_losses' = losses_after(result)
        /\ trades' = Append(trades, trade_record(trade_plan, result, actual_profit_loss))
        /\ call' = [op |-> "record_trade_result", trade_plan |-> trade_plan,
                    result |-> result, actual_profit_loss |-> actual_profit_loss]
        /\ ret' = None
        /\ UNCHANGED <<config, session_start, market, threads, cache>>

\* record_trade_result called from several threads: each caller runs the
\* handler's statements in order, and the callers' steps interleave.  The two
\* augmented assignments are a read of the attribute followed by a write;
\* list.append is one step.
BeginRecord(Rs) ==
    \E r \in Rs :
        /\ Len(threads) < MaxCallers
        /\ threads' = Append(threads, [pc |-> "load_pnl", trade_plan |-> SamplePlan,
                                       result |-> r.result,
                                       actual_profit_loss |-> r.actual_profit_loss,
                                       local |-> 0])
        /\ UNCHANGED <<config, risk_state, session_start, market, call, ret, cache>>

\* self.daily_pnl += actual_profit_loss, the read
LoadPnl ==
    \E t \in DOMAIN threads :
        /\ threads[t].pc = "load_pnl"
        /\ threads' = [threads EXCEPT ![t].local = daily_pnl, ![t].pc = "store_pnl"]
        /\ UNCHANGED <<config, risk_state, session_start, market, call, ret, cache>>

\* self.daily_pnl += actual_profit_loss, the write
StorePnl ==
    \E t \in DOMAIN threads :
        /\ threads[t].pc = "store_pnl"
        /\ daily_pnl' = threads[t].local + threads[t].actual_profit_loss
        /\ threads' = [threads EXCEPT ![t].pc = IF threads[t].result = "loss"
                                                THEN "load_losses" ELSE "store_losses"]
        /\ UNCHANGED <<config, consecutive_losses, trades, session_start, market,
                       call, ret, cache>>

\* self.consecutive_losses += 1, the read
LoadLosses ==
    \E t \in DOMAIN threads :
        /\ threads[t].pc = "load_losses"
        /\ threads' = [threads EXCEPT ![t].local = consecutive_losses,
                                      ![t].pc = "store_losses"]
        /\ UNCHANGED <<config, risk_state, session_start, market, call, ret, cache>>

\* self.consecutive_losses += 1, the write, or self.consecutive_losses = 0
StoreLosses ==
    \E t \in DOMAIN threads :
        /\ threads[t].pc = "store_losses"
        /\ consecutive_losses' = IF threads[t].result = "loss"
                                 THEN threads[t].local + 1 ELSE 0
        /\ threads' = [threads EXCEPT ![t].pc = "append"]
        /\ UNCHANGED <<config, daily_pnl, trades, session_start, market, call, ret, cache>>

\* self.trades.append(trade_record), and the return
AppendRecord ==
    \E t \in DOMAIN threads :
        /\ threads[t].pc = "append"
        /\ trades' = Append(trades, trade_record(threads[t].trade_plan, threads[t].result,
                                                 threads[t].actual_profit_loss))
        /\ threads' = [threads EXCEPT ![t].pc = "done"]
        /\ call' = [op |-> "record_trade_result", trade_plan |-> threads[t].trade_plan,
                    result |-> threads[t].result,
                    actual_profit_loss |-> threads[t].actual_profit_loss]
        /\ ret' = None
        /\ UNCHANGED <<config, daily_pnl, consecutive_losses, session_start, market, cache>>

\* faulty variant: the reset starts a new history too
ResetDailyStats_clearing ==
    /\ daily_pnl' = 0
    /\ consecutive_losses' = 0
    /\ trades' = <<>>
    /\ session_start' = 0
    /\ call' = [op |-> "reset_daily_stats"]
    /\ ret' = None
    /\ UNCHANGED <<config, market, threads, cache>>

\* faulty variant: the reset zeroes the day's total and leaves the breaker
ResetDailyStats_pnl_only ==
    /\ daily_pnl' = 0
    /\ consecutive_losses' = consecutive_losses
    /\ session_start' = Len(trades)
    /\ call' = [op |-> "reset_daily_stats"]
    /\ ret' = None
    /\ UNCHANGED <<config, trades, market, threads, cache>>

ResetDailyStats ==
    /\ daily_pnl' = 0
    /\ consecutive_losses' = 0
    /\ session_start' = Len(trades)
    /\ call' = [op |-> "reset_daily_stats"]
    /\ ret' = None
    /\ UNCHANGED <<config, trades, market, threads, cache>>

GenerateTradePlans(Batches, Caps) ==
    \E opportunities \in Batches, max_plans \in Caps :
        /\ call' = [op |-> "generate_trade_plans", opportunities |-> opportunities,
                    max_plans |-> max_plans]
        /\ ret' = [plans |-> generate_trade_plans(opportunities, max_plans)]
        /\ UNCHANGED <<config, risk_state, session_start, market, threads, cache>>

GenerateTradePlan(Opportunities) ==
    \E opportunity \in Opportunities :
        /\ call' = [op |-> "generate_trade_plan", opportunity |-> opportunity]
        /\ ret' = [plan |-> generate_trade_plan(opportunity)]
        /\ UNCHANGED <<config, risk_state, session_start, market, threads, cache>>

CalculatePositionSize ==
    \E entry_price \in EntryInputs, stop_loss_price \in StopInputs :
        /\ call' = [op |-> "calculate_position_size", entry_price |-> entry_price,
                    stop_loss_price |-> stop_loss_price]
        /\ ret' = [value |-> calculate_position_size(entry_price, stop_loss_price)]
        /\ UNCHANGED <<config, risk_state, session_start, market, threads, cache>>

\* bar series for the ATR itself: none, without columns, flat, trending, and
\* gapping up and down between the bars
GapBars ==
    Frame(<<Bar(Dollars(102), Dollars(98), Dollars(100)),
            Bar(Dollars(112), Dollars(109), Dollars(110)),
            Bar(Dollars(95), Dollars(91), Dollars(93)),
            Bar(Dollars(94), Dollars(93), Dollars(94))>>)
CalculateAtr ==
    \E data \in {NoData, NoColumns, FlatBars(4, Dollars(100)),
                  TrendBars(4, Dollars(100), 280), GapBars},
       period \in {1, 2, 3, 5} :
        /\ call' = [op |-> "calculate_atr", data |-> data, period |-> period]
        /\ ret' = [series |-> calculate_atr(data, period)]
        /\ UNCHANGED <<config, risk_state, session_start, market, threads, cache>>

CalculateStopLoss ==
    \E symbol \in Symbols, entry_price \in PriceInputs, direction \in Directions :
        /\ call' = [op |-> "calculate_stop_loss", symbol |-> symbol,
                    entry_price |-> entry_price, direction |-> direction]
        /\ ret' = [value |-> calculate_stop_loss(symbol, entry_price, direction)]
        /\ UNCHANGED <<config, risk_state, session_start, market, threads, cache>>

CalculateTakeProfit ==
    \E entry_price \in EntryInputs, stop_loss_price \in StopInputs, direction \in Directions :
        /\ call' = [op |-> "calculate_take_profit", entry_price |-> entry_price,
                    stop_loss_price |-> stop_loss_price, direction |-> direction]
        /\ ret' = [value |-> calculate_take_profit(entry_price, stop_loss_price, direction)]
        /\ UNCHANGED <<config, risk_state, session_start, market, threads, cache>>

ScanForPriceDeviation ==
    \E symbols \in UniverseInputs, frames \in IntradayMarkets,
       min_deviation \in MinDeviationInputs :
        /\ call' = [op |-> "scan_for_price_deviation", symbols |-> symbols,
                    frames |-> frames, min_deviation |-> min_deviation]
        /\ ret' = [results |-> scan_for_price_deviation(symbols, frames, min_deviation)]
        /\ UNCHANGED <<config, risk_state, session_start, market, threads, cache>>

CalculateRelativeStrength ==
    \E symbols \in UniverseInputs, frames \in HistoryMarkets,
       period_weeks \in PeriodWeeksInputs :
        /\ call' = [op |-> "calculate_relative_strength", symbols |-> symbols,
                    frames |-> frames, period_weeks |-> period_weeks]
        /\ ret' = [results |-> calculate_relative_strength(symbols, frames, period_weeks)]
        /\ UNCHANGED <<config, risk_state, session_start, market, threads, cache>>

ScanForHighRelativeVolume ==
    \E symbols \in UniverseInputs, frames \in VolumeMarkets,
       min_rel_volume \in {150} :
        /\ call' = [op |-> "scan_for_high_relative_volume", symbols |-> symbols,
                    frames |-> frames, min_rel_volume |-> min_rel_volume]
        /\ ret' = [results |-> scan_for_high_relative_volume(symbols, frames, min_rel_volume)]
        /\ UNCHANGED <<config, risk_state, session_start, market, threads, cache>>

ScanForHighAtr ==
    \E symbols \in UniverseInputs, frames \in AtrMarkets,
       lookback_period \in {20} :
        /\ call' = [op |-> "scan_for_high_atr", symbols |-> symbols,
                    frames |-> frames, lookback_period |-> lookback_period]
        /\ ret' = [results |-> scan_for_high_atr(symbols, frames, lookback_period)]
        /\ UNCHANGED <<config, risk_state, session_start, market, threads, cache>>

CheckForCatalysts ==
    \E symbols \in UniverseInputs, feeds \in FeedMarkets :
        /\ call' = [op |-> "check_for_catalysts", symbols |-> symbols, feeds |-> feeds]
        /\ ret' = [results |-> check_for_catalysts(symbols, feeds)]
        /\ UNCHANGED <<config, risk_state, session_start, market, threads, cache>>

\* the ranker, applied to the five result lists of a scan cycle
FindOpportunities ==
    \E scans \in RankerInputs :
        /\ call' = [op |-> "_find_opportunities", scans |-> scans]
        /\ ret' = [opportunities |->
                       _find_opportunities(scans.deviation_results, scans.volume_results,
                                           scans.atr_results, scans.catalyst_results,
                                           scans.strength_results)]
        /\ UNCHANGED <<config, risk_state, session_start, market, threads, cache>>

\* app.py run_stock_scan: a scan cycle, then plans for its opportunities
RunStockScan(Scans) ==
    \E scans \in Scans :
        LET scan_results == run_comprehensive_scan(scans)
            opportunities == opportunities_of(scan_results)
        IN  /\ call' = [op |-> "run_stock_scan", scans |-> scans]
            /\ ret' = [scan_results |-> scan_results,
                       trade_plans |-> generate_trade_plans(opportunities, DEFAULT_MAX_PLANS)]
            /\ UNCHANGED <<config, risk_state, session_start, market, threads, cache>>

---------------------------------------------------------------------------
(* The risk governor's state machine: one strategy, its callers recording  *)
(* results, resetting the day, asking the gate and asking for plans.       *)

Init ==
    /\ Construct(DEFAULT_ACCOUNT_SIZE, DEFAULT_MAX_DAILY_LOSS, DEFAULT_RISK_REWARD_RATIO)
    /\ market = MarketDown

Next ==
    \/ CanTakeTrade
    \/ RecordTradeResult({SamplePlan}, Results, PnlInputs)
    \/ ResetDailyStats
    \/ GenerateTradePlans({<<>>, <<SampleAAPL>>}, {DEFAULT_MAX_PLANS})
    \/ GetTradingSummary

Spec == Init /\ [][Next]_vars

---------------------------------------------------------------------------
(* What the claims speak of *)

\* the records of the current session: those appended since the last reset
SessionTrades == SubSeq(trades, session_start + 1, Len(trades))

RECURSIVE TrailingLosses(_)
\* the length of the run of 'loss' results a list of records ends with
TrailingLosses(s) ==
    IF s = <<>> THEN 0
    ELSE IF s[Len(s)].result # "loss" THEN 0
    ELSE 1 + TrailingLosses(SubSeq(s, 1, Len(s) - 1))

SessionPnl == SumSeq([i \in 1..Len(SessionTrades) |-> SessionTrades[i].profit_loss])

\* a step in which record_trade_result ran
RecordStep == Len(trades') = Len(trades) + 1

---------------------------------------------------------------------------
(* C1..C3: the risk governor *)

\* C1: can_take_trade() returns false exactly when daily_pnl <= -max_daily_loss
\* or consecutive_losses >= 3, and true otherwise.
C1_GateDecision ==
    call.op = "can_take_trade" =>
        /\ ret.answer \in BOOLEAN
        /\ ret.answer = FALSE <=> (daily_pnl <= -max_daily_loss \/ consecutive_losses >= 3)

\* the gate was asked with daily_pnl exactly at the cap and fewer than 3 losses
C1_Witness ==
    /\ call.op = "can_take_trade"
    /\ daily_pnl = -max_daily_loss
    /\ consecutive_losses = 2
    /\ ret.answer = FALSE

\* C2: after three 'loss' results in a row in one session the gate answers
\* false; a 'win' recorded next sets consecutive_losses to 0, and the gate
\* answers true again when daily_pnl is above -max_daily_loss.
C2_ThreeLossesThenWin ==
    /\ TrailingLosses(SessionTrades) >= 3 =>
           /\ ~can_take_trade
           /\ call.op = "can_take_trade" => ret.answer = FALSE
    /\ (call.op = "record_trade_result" /\ call.result = "win") =>
           /\ consecutive_losses = 0
           /\ daily_pnl > -max_daily_loss => can_take_trade
    /\ (call.op = "can_take_trade" /\ trades # <<>> /\ trades[Len(trades)].result = "win"
            /\ session_start < Len(trades) /\ daily_pnl > -max_daily_loss) => ret.answer = TRUE

\* three losses in a row closed the gate, a win was recorded, and the gate was
\* asked and answered true
C2_Witness ==
    /\ Len(SessionTrades) = 4
    /\ \A i \in 1..3 : SessionTrades[i].result = "loss"
    /\ SessionTrades[4].result = "win"
    /\ call.op = "can_take_trade"
    /\ ret.answer = TRUE

\* C3: each record_trade_result adds actual_pnl to daily_pnl and sets
\* consecutive_losses to old + 1 on 'loss' and to 0 on any other result; so
\* daily_pnl is the sum of the pnl recorded since the last reset and
\* consecutive_losses the trailing run of losses since the last reset.
C3_RecordUpdates ==
    /\ [](/\ daily_pnl = SessionPnl
          /\ consecutive_losses = TrailingLosses(SessionTrades))
    /\ [][RecordStep =>
            /\ daily_pnl' = daily_pnl + call'.actual_profit_loss
            /\ consecutive_losses' =
                   IF call'.result = "loss" THEN consecutive_losses + 1 ELSE 0]_vars

\* after a reset: a breakeven with a negative pnl, then a loss with a positive pnl
C3_Witness ==
    /\ session_start > 0
    /\ Len(SessionTrades) = 2
    /\ SessionTrades[1].result = "breakeven" /\ SessionTrades[1].profit_loss < 0
    /\ SessionTrades[2].result = "loss" /\ SessionTrades[2].profit_loss > 0
    /\ consecutive_losses = 1
    /\ daily_pnl = Dollars(50)

---------------------------------------------------------------------------
(* The batch machine: plans asked for lists of opportunities and for the   *)
(* opportunities of a scan cycle, while losses are recorded and the day is *)
(* reset.                                                                  *)

InitBatch ==
    /\ Construct(DEFAULT_ACCOUNT_SIZE, DEFAULT_MAX_DAILY_LOSS, DEFAULT_RISK_REWARD_RATIO)
    /\ market \in {MarketDown, MarketUp}

NextBatch ==
    \/ GenerateTradePlans(SeqsUpTo({SampleAAPL, SampleTSLA}, MaxOpps), MaxPlansInputs)
    \/ RunStockScan(BatchScans)
    \/ RecordTradeResult({SamplePlan}, {"loss"}, {Dollars(-50)})
    \/ ResetDailyStats

SpecBatch == InitBatch /\ [][NextBatch]_vars

---------------------------------------------------------------------------
(* C4..C7: batches of plans *)

\* the gate as the specification words it
GateClosed == daily_pnl <= -max_daily_loss \/ consecutive_losses >= 3

\* the opportunities and the cap of the batch the last call ran, and its plans
IsBatch == call.op \in {"generate_trade_plans", "run_stock_scan"}
BatchOpportunities ==
    IF call.op = "generate_trade_plans" THEN call.opportunities
    ELSE opportunities_of(ret.scan_results)
BatchCap == IF call.op = "generate_trade_plans" THEN call.max_plans ELSE DEFAULT_MAX_PLANS
BatchPlans == IF call.op = "generate_trade_plans" THEN ret.plans ELSE ret.trade_plans

\* C4: a batch run while can_take_trade() is false produces no plan, for no
\* opportunity of the batch.
C4_ClosedGateNoPlans ==
    (IsBatch /\ GateClosed) => BatchPlans = <<>>

\* the gate is closed and a batch of two well-formed opportunities got no plan
C4_Witness ==
    /\ call.op = "generate_trade_plans"
    /\ GateClosed
    /\ Len(call.opportunities) = 2
    /\ call.max_plans = DEFAULT_MAX_PLANS
    /\ ret.plans = <<>>

\* C5: with the gate open, a batch emits exactly one plan for each of the
\* first min(len(opportunities), max_plans) opportunities, in their order
\* (max_plans a count, 0 or more).
C5_OnePlanPerOpportunity ==
    (IsBatch /\ ~GateClosed /\ BatchCap >= 0) =>
        /\ Len(BatchPlans) = Min(Len(BatchOpportunities), BatchCap)
        /\ \A k \in 1..Len(BatchPlans) : BatchPlans[k].symbol = BatchOpportunities[k].symbol

\* C6: with the gate open, the plans made for the opportunities of a scan
\* cycle are non-empty when the opportunities are, and carry each
\* opportunity's symbol, price, direction and score.
C6_PipelineComposes ==
    (call.op = "run_stock_scan" /\ ~GateClosed /\ opportunities_of(ret.scan_results) # <<>>) =>
        LET opportunities == opportunities_of(ret.scan_results)
        IN  /\ ret.trade_plans # <<>>
            /\ Len(ret.trade_plans) = Min(Len(opportunities), DEFAULT_MAX_PLANS)
            /\ \A k \in 1..Len(ret.trade_plans) :
                   /\ ret.trade_plans[k].symbol = opportunities[k].symbol
                   /\ ret.trade_plans[k].entry_price = opportunities[k].price
                   /\ ret.trade_plans[k].direction =
                          (IF opportunities[k].direction = "up" THEN "long" ELSE "short")
                   /\ ret.trade_plans[k].score = opportunities[k].score

\* C7: generate_trade_plans of an empty list returns the empty list, whatever
\* the gate and the cap.
C7_EmptyBatch ==
    (call.op = "generate_trade_plans" /\ call.opportunities = <<>>) => ret.plans = <<>>

\* an empty batch with a negative cap while the gate is closed
C7_Witness ==
    /\ call.op = "generate_trade_plans"
    /\ call.opportunities = <<>>
    /\ call.max_plans < 0
    /\ GateClosed
    /\ ret.plans = <<>>

---------------------------------------------------------------------------
(* The plan engine: a fresh strategy of either account size, in a market   *)
(* of each kind, asked for sizes, stops, targets and single plans.         *)

InitPlan ==
    /\ \E a \in AccountSizeInputs :
           Construct(a, DEFAULT_MAX_DAILY_LOSS, DEFAULT_RISK_REWARD_RATIO)
    /\ market \in UniformMarkets

NextPlan ==
    \/ CalculatePositionSize
    \/ CalculateStopLoss
    \/ CalculateTakeProfit
    \/ GenerateTradePlan(SampleOpportunities)
    \/ CalculateAtr

SpecPlan == InitPlan /\ [][NextPlan]_vars

---------------------------------------------------------------------------
(* C8..C10: sizing and stops *)

\* floor(a / b) for a >= 0, b > 0
Floor(a, b) == a \div b

\* C8: calculate_position_size(entry, stop) is floor(max_risk_per_trade /
\* |entry - stop|), unless that many shares at the entry price cost more
\* than 25% of account_size, and then floor(0.25 * account_size / entry);
\* entry 100, stop 95, account 1000 gives 2; the size is an integer >= 0
\* for entry > 0.
C8_PositionSize ==
    call.op = "calculate_position_size" =>
        LET entry == call.entry_price
            stop == call.stop_loss_price
            risk == IF entry >= stop THEN entry - stop ELSE stop - entry
            raw == Floor(Dollars(50), risk)
        IN  /\ (stop # NaN /\ risk > 0) =>
                   ret.value = IF 4 * raw * entry > account_size
                               THEN Floor(account_size, 4 * entry)
                               ELSE raw
            /\ (entry = Dollars(100) /\ stop = Dollars(95) /\ account_size = Dollars(1000))
                   => ret.value = 2
            /\ entry > 0 => ret.value \in Nat

\* the worked example: raw size 10, cut to 2 by the 25% limit
C8_Witness ==
    /\ call.op = "calculate_position_size"
    /\ call.entry_price = Dollars(100)
    /\ call.stop_loss_price = Dollars(95)
    /\ account_size = Dollars(1000)
    /\ Floor(Dollars(50), Dollars(5)) = 10
    /\ ret.value = 2

\* C9: when the risk per share is zero, or the size computation fails, the
\* plan is still emitted, with position_size 0, potential_loss 0 and
\* potential_profit 0.
C9_ZeroSizePlan ==
    call.op = "generate_trade_plan" =>
        /\ ret.plan # None
        /\ LET risk_per_share == f_abs(f_sub(ret.plan.entry_price, ret.plan.stop_loss))
           IN  (risk_per_share = 0 \/ isnan(risk_per_share)) =>
                   /\ ret.plan.position_size = 0
                   /\ ret.plan.potential_loss = 0
                   /\ ret.plan.potential_profit = 0

\* the true range of bar i and the latest ATR(14), as the specification
\* states them: the mean of the true range over the trailing 14 bars,
\* undefined with fewer than 14
SpecTrueRange(rows, i) ==
    IF i = 1 THEN rows[i].High - rows[i].Low
    ELSE LET a == rows[i].High - rows[i].Low
             b == rows[i].High - rows[i - 1].Close
             c == rows[i].Low - rows[i - 1].Close
         IN  Max(a, Max(IF b < 0 THEN -b ELSE b, IF c < 0 THEN -c ELSE c))
SpecLatestATR(rows) ==
    IF Len(rows) < 14 THEN NaN
    ELSE SumSeq([k \in 1..14 |-> SpecTrueRange(rows, Len(rows) - 14 + k)]) \div 14

\* C10: calculate_stop_loss is entry - 1.5 * ATR for a long and entry + 1.5 *
\* ATR for a short, ATR being the latest ATR(14) of the symbol's daily bars;
\* whenever the bars or the ATR are unavailable (the fetch fails, no bars,
\* no ATR series, no latest ATR value) it is the flat 3% stop, entry * 0.97
\* for a long and entry * 1.03 for a short.
C10_StopLoss ==
    call.op = "calculate_stop_loss" =>
        LET data == market[call.symbol]
            entry == call.entry_price
            long == call.direction = "long"
            atr == SpecLatestATR(data.rows)
        IN  IF data.fails \/ data.rows = <<>> \/ ~data.columns \/ atr = NaN
            THEN ret.value = IF long THEN (entry * 97) \div 100 ELSE (entry * 103) \div 100
            ELSE ret.value = IF long THEN entry - (3 * atr) \div 2 ELSE entry + (3 * atr) \div 2

---------------------------------------------------------------------------
(* C11: the algebra of a plan *)

\* float equality: an undefined value equals nothing, itself included
f_eq(a, b) == ~isnan(a) /\ ~isnan(b) /\ a = b

\* C11: every emitted plan has take_profit = entry + |entry - stop| *
\* risk_reward_ratio for a long and entry - |entry - stop| * risk_reward_ratio
\* for a short, potential_loss = position_size * |entry - stop|,
\* potential_profit = position_size * |entry - take_profit|, and so
\* potential_profit = risk_reward_ratio * potential_loss.
C11_PlanAlgebra ==
    (call.op = "generate_trade_plan" /\ ret.plan # None) =>
        LET plan == ret.plan
            risk == f_abs(f_sub(plan.entry_price, plan.stop_loss))
            reward == f_mul(risk, risk_reward_ratio)
        IN  /\ f_eq(plan.take_profit,
                    IF plan.direction = "long" THEN f_add(plan.entry_price, reward)
                                               ELSE f_sub(plan.entry_price, reward))
            /\ f_eq(plan.potential_loss, f_mul(plan.position_size, risk))
            /\ f_eq(plan.potential_profit,
                    f_mul(plan.position_size,
                          f_abs(f_sub(plan.entry_price, plan.take_profit))))
            /\ f_eq(plan.potential_profit, f_mul(risk_reward_ratio, plan.potential_loss))

---------------------------------------------------------------------------
(* The whole engine: every operation the strategy exposes, called in any   *)
(* order on one strategy.                                                  *)

InitEngine ==
    /\ Construct(DEFAULT_ACCOUNT_SIZE, DEFAULT_MAX_DAILY_LOSS, DEFAULT_RISK_REWARD_RATIO)
    /\ market = MarketUp

NextEngine ==
    \/ CanTakeTrade
    \/ RecordTradeResult({SamplePlan}, {"loss", "win"}, {Dollars(-50)})
    \/ ResetDailyStats
    \/ GetTradingSummary
    \/ GenerateTradePlan({SampleAAPL})
    \/ GenerateTradePlans({<<SampleAAPL, SampleTSLA>>}, {DEFAULT_MAX_PLANS})
    \/ CalculatePositionSize
    \/ CalculateStopLoss
    \/ CalculateTakeProfit

SpecEngine == InitEngine /\ [][NextEngine]_vars

---------------------------------------------------------------------------
(* C12..C14: who changes the risk state, and how *)

\* the operation a step performs
StepOp == call'.op

\* C12 as stated: no operation other than record_trade_result changes
\* daily_pnl, consecutive_losses or the trade history.
C12_OnlyRecordMutates ==
    [][StepOp # "record_trade_result" => UNCHANGED risk_state]_vars

\* C12: no operation other than record_trade_result and reset_daily_stats
\* changes daily_pnl, consecutive_losses or the trade history, and
\* reset_daily_stats changes the two counters only; so the gate's answer is
\* the same before and after every other operation, a batch included.
C12_OnlyRecordAndResetMutate ==
    [][/\ StepOp \notin {"record_trade_result", "reset_daily_stats"}
            => /\ UNCHANGED risk_state
               /\ can_take_trade' = can_take_trade
       /\ StepOp = "reset_daily_stats" => UNCHANGED trades]_vars

\* a batch that ran, and emitted nothing, on a tripped breaker it left tripped
C12_Witness ==
    /\ call.op = "generate_trade_plans"
    /\ consecutive_losses = 3
    /\ Len(trades) = 3
    /\ daily_pnl = Dollars(-150)
    /\ ret.plans = <<>>

\* whether s is the beginning of t
IsPrefix(s, t) == Len(s) <= Len(t) /\ SubSeq(t, 1, Len(s)) = s

\* C13: the trade history is append-only: a record_trade_result call adds
\* exactly one record, at the end, holding the plan's symbol, direction,
\* entry, stop, target and size and the given result and amount; no other
\* operation, reset_daily_stats included, changes the history at all.
C13_AppendOnly ==
    [][/\ IsPrefix(trades, trades')
       /\ StepOp = "record_trade_result" =>
              /\ Len(trades') = Len(trades) + 1
              /\ LET added == trades'[Len(trades')]
                     plan == call'.trade_plan
                 IN  /\ added.symbol = plan.symbol
                     /\ added.direction = plan.direction
                     /\ added.entry_price = plan.entry_price
                     /\ added.stop_loss = plan.stop_loss
                     /\ added.take_profit = plan.take_profit
                     /\ added.position_size = plan.position_size
                     /\ added.result = call'.result
                     /\ added.profit_loss = call'.actual_profit_loss
       /\ StepOp # "record_trade_result" => trades' = trades]_vars

\* a reset after a loss and a win, both still in the history, in order
C13_Witness ==
    /\ call.op = "reset_daily_stats"
    /\ Len(trades) = 2
    /\ trades[1].result = "loss"
    /\ trades[2].result = "win"

\* C14: reset_daily_stats sets daily_pnl and consecutive_losses to 0 from any
\* state, as construction does; right after either, can_take_trade() is true
\* whenever max_daily_loss > 0.
C14_ResetZeroes ==
    call.op \in {"reset_daily_stats", "__init__"} =>
        /\ daily_pnl = 0
        /\ consecutive_losses = 0
        /\ max_daily_loss > 0 => (~(0 <= -max_daily_loss) /\ can_take_trade)

\* a reset of a day whose gate both the breaker and the cap had closed
C14_Witness ==
    /\ call.op = "reset_daily_stats"
    /\ max_daily_loss = Dollars(100)
    /\ Len(SessionTrades) = 0
    /\ Len(trades) = 3
    /\ \A i \in 1..3 : trades[i].result = "loss" /\ trades[i].profit_loss = Dollars(-50)
    /\ daily_pnl = 0
    /\ can_take_trade

---------------------------------------------------------------------------
(* The scanner: the ranker and the scans, applied to what the fetchers     *)
(* hand them.                                                              *)

InitScan ==
    /\ Construct(DEFAULT_ACCOUNT_SIZE, DEFAULT_MAX_DAILY_LOSS, DEFAULT_RISK_REWARD_RATIO)
    /\ market = MarketDown

NextScan ==
    \/ FindOpportunities
    \/ ScanForPriceDeviation
    \/ CalculateRelativeStrength
    \/ CheckForCatalysts
    \/ ScanForHighRelativeVolume
    \/ ScanForHighAtr

SpecScan == InitScan /\ [][NextScan]_vars

---------------------------------------------------------------------------
(* C15..C17: the ranker *)

\* the symbols of a list of records
SymbolsOf(results) == {results[i].symbol : i \in 1..Len(results)}
\* the record of a symbol in a result list that holds it once
ItemOf(results, symbol) ==
    results[CHOOSE i \in 1..Len(results) : results[i].symbol = symbol]
IsRanking == call.op = "_find_opportunities"
Absolute(x) == IF x < 0 THEN -x ELSE x

\* C15: the symbols of the ranker's opportunities are a subset of the
\* symbols of the deviation results, whatever the other four lists hold.
C15_DeviationGates ==
    IsRanking => SymbolsOf(ret.opportunities) \subseteq SymbolsOf(call.scans.deviation_results)

\* MSFT in all four other lists and not in the deviation list, whose symbols
\* are opportunities
C15_Witness ==
    /\ IsRanking
    /\ "MSFT" \in SymbolsOf(call.scans.volume_results)
    /\ "MSFT" \in SymbolsOf(call.scans.atr_results)
    /\ "MSFT" \in SymbolsOf(call.scans.catalyst_results)
    /\ "MSFT" \in SymbolsOf(call.scans.strength_results)
    /\ "MSFT" \notin SymbolsOf(call.scans.deviation_results)
    /\ SymbolsOf(ret.opportunities) = {"AAPL", "TSLA"}

\* C16 as stated: score = min(|deviation_pct| * 5, 50), plus 10 when the
\* direction is up, plus min(relative_volume * 5, 20), min(atr_ratio * 5, 15),
\* 25 and percentile / 5 for the volume, ATR, catalyst and strength results
\* the symbol is in.
C16_ScoreOutOf150 ==
    IsRanking =>
        \A i \in 1..Len(ret.opportunities) :
            LET o == ret.opportunities[i]
                scans == call.scans
                d == ItemOf(scans.deviation_results, o.symbol)
            IN  o.score =
                    Min(Absolute(d.deviation_pct) * 5, Pct(50))
                    + (IF d.direction = "up" THEN Pct(10) ELSE 0)
                    + (IF o.symbol \in SymbolsOf(scans.volume_results)
                       THEN Min(ItemOf(scans.volume_results, o.symbol).relative_volume * 5, Pct(20))
                       ELSE 0)
                    + (IF o.symbol \in SymbolsOf(scans.atr_results)
                       THEN Min(ItemOf(scans.atr_results, o.symbol).atr_ratio * 5, Pct(15))
                       ELSE 0)
                    + (IF o.symbol \in SymbolsOf(scans.catalyst_results) THEN Pct(25) ELSE 0)
                    + (IF o.symbol \in SymbolsOf(scans.strength_results)
                       THEN ItemOf(scans.strength_results, o.symbol).percentile \div 5
                       ELSE 0)

\* C16: score = min(|deviation_pct| / 2, 5), whatever the direction, plus
\* min(relative_volume - 1, 3) when the symbol is in the volume results,
\* min(atr_ratio - 1, 3) when it is in the ATR results, 3 when it is in the
\* catalyst results, and min((percentile - 75) / 5, 3) when it is in the
\* strength results with a percentile of at least 75; absent signals add 0.
C16_ScoreOutOf17 ==
    IsRanking =>
        \A i \in 1..Len(ret.opportunities) :
            LET o == ret.opportunities[i]
                scans == call.scans
                d == ItemOf(scans.deviation_results, o.symbol)
                pctile == ItemOf(scans.strength_results, o.symbol).percentile
            IN  o.score =
                    Min(Absolute(d.deviation_pct) \div 2, 500)
                    + (IF o.symbol \in SymbolsOf(scans.volume_results)
                       THEN Min(ItemOf(scans.volume_results, o.symbol).relative_volume - 100, 300)
                       ELSE 0)
                    + (IF o.symbol \in SymbolsOf(scans.atr_results)
                       THEN Min(ItemOf(scans.atr_results, o.symbol).atr_ratio - 100, 300)
                       ELSE 0)
                    + (IF o.symbol \in SymbolsOf(scans.catalyst_results) THEN 300 ELSE 0)
                    + (IF o.symbol \in SymbolsOf(scans.strength_results) /\ pctile >= 7500
                       THEN Min((pctile - 7500) \div 5, 300)
                       ELSE 0)

\* TSLA down 5% with all four other signals, the volume one at its cap:
\* 2.5 + 3 + 3 + 0 (percentile 60) = 8.5; AAPL up 12%, its deviation at its
\* cap, with ATR and strength: 5 + 0.5 + 1 = 6.5
C16_Witness ==
    /\ IsRanking
    /\ Len(ret.opportunities) = 2
    /\ ret.opportunities[1].symbol = "TSLA"
    /\ ret.opportunities[1].direction = "down"
    /\ ret.opportunities[1].score = 850
    /\ "strength_percentile" \in DOMAIN ret.opportunities[1]
    /\ ret.opportunities[2].symbol = "AAPL"
    /\ ret.opportunities[2].score = 650

\* C17: the ranker's list is in descending order of score.
C17_SortedByScore ==
    IsRanking =>
        \A i \in 1..(Len(ret.opportunities) - 1) :
            ret.opportunities[i].score >= ret.opportunities[i + 1].score

\* two opportunities in the opposite order of their deviations
C17_Witness ==
    /\ IsRanking
    /\ Len(call.scans.deviation_results) = 2
    /\ Len(ret.opportunities) = 2
    /\ ret.opportunities[1].symbol = call.scans.deviation_results[2].symbol
    /\ ret.opportunities[1].score > ret.opportunities[2].score

---------------------------------------------------------------------------
(* C18..C20: the scans *)

\* the elements of a list of symbols
Range(s) == {s[i] : i \in 1..Len(s)}

\* the deviation of a frame as the specification states it, in hundredths
\* of a percent: (last close - first close) / first close * 100
SpecDeviation(closes) ==
    ((closes[Len(closes)] - closes[1]) * 100 * 100) \div closes[1]

SpecPerformance(closes, days) ==
    ((closes[Len(closes)] - closes[Len(closes) - days + 1]) * 100 * 100)
        \div closes[Len(closes) - days + 1]

\* C19: calculate_relative_strength ranks the symbols with enough history
\* by performance, best first: the symbol at 0-based position i has rank
\* i + 1 and percentile 100 - i / total * 100 (to the hundredth), so the best
\* has percentile 100, every percentile is in (0, 100], the ranks are
\* 1..total, and performances 10%, 5%, -2% get ranks 1, 2, 3 and
\* percentiles 100, 66.67, 33.33.
C19_RelativeStrength ==
    call.op = "calculate_relative_strength" =>
        LET results == ret.results
            total == Len(results)
            days == call.period_weeks * 7
            ranked == {sym \in Range(call.symbols) :
                          /\ call.frames[sym].columns
                          /\ Len(call.frames[sym].closes) >= days}
        IN  /\ SymbolsOf(results) = ranked
            /\ total = Cardinality(ranked)
            /\ \A k \in 1..total :
                   /\ results[k].rank = k
                   /\ results[k].relative_strength =
                          SpecPerformance(call.frames[results[k].symbol].closes, days)
                   /\ 2 * Absolute(total * results[k].percentile
                                   - (total * 10000 - (k - 1) * 10000)) <= total
                   /\ results[k].percentile > 0
                   /\ results[k].percentile <= 10000
            /\ total > 0 => results[1].percentile = 10000
            /\ \A k \in 1..(total - 1) :
                   results[k].relative_strength >= results[k + 1].relative_strength
            /\ (total = 3 /\ \A k \in 1..3 :
                                 results[k].relative_strength = <<1000, 500, -200>>[k])
                   => \A k \in 1..3 : /\ results[k].rank = k
                                      /\ results[k].percentile = <<10000, 6667, 3333>>[k]

\* performances 5%, 10%, -2% in the order of the list, ranked 10%, 5%, -2%
C19_Witness ==
    /\ call.op = "calculate_relative_strength"
    /\ call.symbols = <<"AAPL", "MSFT", "TSLA">>
    /\ Len(ret.results) = 3
    /\ ret.results[1] = [symbol |-> "MSFT", relative_strength |-> 1000, rank |-> 1,
                         percentile |-> 10000]
    /\ ret.results[2] = [symbol |-> "AAPL", relative_strength |-> 500, rank |-> 2,
                         percentile |-> 6667]
    /\ ret.results[3] = [symbol |-> "TSLA", relative_strength |-> -200, rank |-> 3,
                         percentile |-> 3333]

\* trigger and suppressor keywords, and the keywords a headline holds, as
\* the specification states them: those its lowercased title contains
Triggers == Range(catalyst_keywords)
Suppressors == {"merger", "buyout", "acquisition"}
KeywordsIn(title, keywords) ==
    {k \in keywords : \E i \in 1..Len(title) : word_contains(lower(title[i]), k)}
Qualifies(title) ==
    KeywordsIn(title, Triggers) # {} /\ KeywordsIn(title, Suppressors) = {}

\* C20: for each symbol the catalyst check reports a catalyst for the first
\* headline, in feed order, whose lowercased title holds a trigger keyword
\* and no suppressor keyword, listing the trigger keywords of that headline
\* alone; a symbol without such a headline among those fetched yields none;
\* 'earnings' with 'merger' never qualifies, 'fda' with 'approval' does.
C20_FirstQualifyingHeadline ==
    call.op = "check_for_catalysts" =>
        /\ ~Qualifies(<<"earnings", "merger">>)
        /\ Qualifies(<<"fda", "approval">>)
        /\ \A sym \in Range(call.symbols) :
               LET feed == call.feeds[sym]
                   fetched == IF feed.fails THEN <<>>
                              ELSE SubSeq(feed.news, 1, Min(Len(feed.news), 5))
                   hits == {i \in 1..Len(fetched) : Qualifies(fetched[i].title)}
                   reported == {i \in 1..Len(ret.results) : ret.results[i].symbol = sym}
               IN  IF hits = {} THEN reported = {}
                   ELSE LET first == CHOOSE i \in hits : \A j \in hits : i <= j
                        IN  /\ Cardinality(reported) = 1
                            /\ \A i \in reported :
                                   /\ ret.results[i].news_title = fetched[first].title
                                   /\ Range(ret.results[i].catalyst_type)
                                          = KeywordsIn(fetched[first].title, Triggers)
                                   /\ Len(ret.results[i].catalyst_type)
                                          = Cardinality(KeywordsIn(fetched[first].title, Triggers))

\* AAPL's first headline has 'earnings', 'beat' and 'merger' and is passed
\* over; the second is reported with 'fda' and 'approval', the third, with
\* 'data', is not looked at
C20_Witness ==
    /\ call.op = "check_for_catalysts"
    /\ call.symbols[1] = "AAPL"
    /\ call.feeds["AAPL"] = Feed(<<TitleEarningsMerger, TitleFdaApproval, TitleDatabase>>)
    /\ ret.results[1] = [symbol |-> "AAPL", catalyst_type |-> <<"fda", "approval">>,
                         news_title |-> TitleFdaApproval]

---------------------------------------------------------------------------
(* C21: the scanners fail soft per symbol *)

\* the symbols of a scan call whose data has a given defect
Failing(IsBroken(_)) == {s \in Range(call.symbols) : IsBroken(call.frames[s])}
\* the call's symbol list without a set of symbols
Without(symbols, dropped) == SelectSeq(symbols, LAMBDA s : s \notin dropped)
NoCloses(data) == data.closes = <<>> \/ ~data.columns
NoVolumes(data) == data.volumes = <<>> \/ ~data.columns
NoBars(data) == data.fails \/ data.rows = <<>> \/ ~data.columns

---------------------------------------------------------------------------
(* C22: a scan cycle in which an exception escapes *)

\* the per-scanner lists of a scan result
ScanLists ==
    {"deviation_results", "volume_results", "atr_results", "catalyst_results",
     "strength_results", "opportunities"}

\* C22: the result of a scan cycle in which an exception escaped has an
\* `error` field, and empty lists for the scanners' results and for the
\* opportunities.
C22_ErrorResult ==
    (call.op = "run_stock_scan" /\ call.scans.fails) =>
        /\ "error" \in DOMAIN ret.scan_results
        /\ \A list \in ScanLists :
               /\ list \in DOMAIN ret.scan_results
               /\ ret.scan_results[list] = <<>>

---------------------------------------------------------------------------
(* C23: the trading summary *)

\* the positions of the history holding a given result
RecordsOf(result) == {i \in 1..Len(trades) : trades[i].result = result}
RECURSIVE PnlUpTo(_)
\* the pnl of the first n records of the history, added up
PnlUpTo(n) == IF n = 0 THEN 0 ELSE PnlUpTo(n - 1) + trades[n].profit_loss
\* q is the quotient a / b in hundredths, rounded down
IsQuotient(q, a, b) == q * b <= a /\ a < (q + 1) * b
\* m is the extreme of the pnl of the records at positions I (0 without any)
IsLargest(m, I) ==
    IF I = {} THEN m = 0
    ELSE (\E i \in I : trades[i].profit_loss = m) /\ \A i \in I : trades[i].profit_loss <= m
IsSmallest(m, I) ==
    IF I = {} THEN m = 0
    ELSE (\E i \in I : trades[i].profit_loss = m) /\ \A i \in I : trades[i].profit_loss >= m

\* C23: the summary of an empty history is all zero; otherwise it holds the
\* length of the history, the numbers of wins and of losses, the win rate
\* wins/total*100, the sum and the mean of all recorded pnl, the largest pnl
\* among the wins and the smallest among the losses (0 without any), all taken
\* over the whole history, the records from before a reset included.
C23_TradingSummary ==
    call.op = "get_trading_summary" =>
        LET summary == ret.summary
        IN  IF trades = <<>>
            THEN \A key \in DOMAIN summary : summary[key] = 0
            ELSE /\ summary.total_trades = Len(trades)
                 /\ summary.winning_trades = Cardinality(RecordsOf("win"))
                 /\ summary.losing_trades = Cardinality(RecordsOf("loss"))
                 /\ summary.winning_trades + summary.losing_trades <= summary.total_trades
                 /\ IsQuotient(summary.win_rate, summary.winning_trades * Pct(100),
                               summary.total_trades)
                 /\ summary.total_profit_loss = PnlUpTo(Len(trades))
                 /\ IsQuotient(summary.average_profit_loss, summary.total_profit_loss,
                               summary.total_trades)
                 /\ IsLargest(summary.largest_win, RecordsOf("win"))
                 /\ IsSmallest(summary.largest_loss, RecordsOf("loss"))

\* a summary taken after a reset, of a history with a win, a loss and a
\* breakeven, whose total differs from the pnl of the day
C23_Witness ==
    /\ call.op = "get_trading_summary"
    /\ session_start >= 2
    /\ Len(trades) > session_start
    /\ ret.summary.total_trades = Len(trades)
    /\ ret.summary.winning_trades >= 1
    /\ ret.summary.losing_trades >= 1
    /\ ret.summary.winning_trades + ret.summary.losing_trades < ret.summary.total_trades
    /\ ret.summary.largest_win = Dollars(100)
    /\ ret.summary.largest_loss = Dollars(-50)
    /\ ret.summary.total_profit_loss # daily_pnl

---------------------------------------------------------------------------
(* C24: the ATR series *)

\* the true ranges of the period bars ending at bar i, added up
TrailingTrueRange(rows, period, i) ==
    SumSeq([k \in 1..period |-> SpecTrueRange(rows, i - period + k)])
IsConstantPrice(rows) ==
    \E k \in {rows[i].Close : i \in 1..Len(rows)} :
        \A i \in 1..Len(rows) : rows[i] = Bar(k, k, k)

\* C24: the ATR series of bars with High, Low and Close is as long as the
\* bars; its first period - 1 values are undefined and every later one is a
\* number, the mean of the true range of the trailing period bars (the first
\* bar's true range being high - low); over constant-price bars every defined
\* value is 0; without a required column the series is empty.
C24_AtrSeries ==
    call.op = "calculate_atr" =>
        LET rows == call.data.rows
            period == call.period
            atr == ret.series
        IN  IF ~call.data.columns THEN atr = <<>>
            ELSE /\ Len(atr) = Len(rows)
                 /\ \A i \in 1..Len(atr) :
                        IF i < period THEN isnan(atr[i])
                        ELSE /\ ~isnan(atr[i])
                             /\ IsQuotient(atr[i], TrailingTrueRange(rows, period, i), period)
                             /\ IsConstantPrice(rows) => atr[i] = 0

\* the ATR(3) of four bars gapping up and then down: two undefined values,
\* then (4 + 12 + 19) / 3 and (12 + 19 + 1) / 3 dollars
C24_Witness ==
    /\ call.op = "calculate_atr"
    /\ call.data = GapBars
    /\ call.period = 3
    /\ ret.series = <<NaN, NaN, 1166, 1066>>

---------------------------------------------------------------------------
(* Callers in threads: one strategy, up to MaxCallers calls of              *)
(* record_trade_result in flight at once, and plans asked for meanwhile.    *)

InitThreads ==
    /\ Construct(DEFAULT_ACCOUNT_SIZE, DEFAULT_MAX_DAILY_LOSS, DEFAULT_RISK_REWARD_RATIO)
    /\ market = MarketUp

NextThreads ==
    \/ BeginRecord({[result |-> "loss", actual_profit_loss |-> Dollars(-50)],
                    [result |-> "win", actual_profit_loss |-> Dollars(100)]})
    \/ LoadPnl
    \/ StorePnl
    \/ LoadLosses
    \/ StoreLosses
    \/ AppendRecord
    \/ GenerateTradePlans({<<SampleAAPL>>}, {DEFAULT_MAX_PLANS})

SpecThreads == InitThreads /\ [][NextThreads]_vars

---------------------------------------------------------------------------
(* C25: concurrent callers *)

\* every call begun has returned
AllReturned == threads # <<>> /\ \A t \in DOMAIN threads : threads[t].pc = "done"
RECURSIVE PnlOfCalls(_)
PnlOfCalls(n) == IF n = 0 THEN 0 ELSE PnlOfCalls(n - 1) + threads[n].actual_profit_loss
\* the orders in which the calls begun can run one after the other
Orders == {o \in [DOMAIN threads -> DOMAIN threads] : \A i, j \in DOMAIN threads : o[i] = o[j] => i = j}
RECURSIVE LossesInOrder(_, _)
\* consecutive_losses after the first n calls of an order, run one by one
LossesInOrder(o, n) ==
    IF n = 0 THEN 0
    ELSE IF threads[o[n]].result = "loss" THEN LossesInOrder(o, n - 1) + 1 ELSE 0

\* C25: once concurrent calls of record_trade_result on a fresh strategy have
\* all returned, daily_pnl is the sum of their pnl, the history holds one
\* record per call, and consecutive_losses is what running the calls in some
\* order, one after the other, gives.
C25_NoLostUpdate ==
    AllReturned =>
        /\ daily_pnl = PnlOfCalls(Len(threads))
        /\ Len(trades) = Len(threads)
        /\ consecutive_losses \in {LossesInOrder(o, Len(threads)) : o \in Orders}

---------------------------------------------------------------------------
(* C26: the bounds of the score *)

\* how many of the four other scans hold the symbol
OtherSignals(scans, symbol) ==
    Cardinality({list \in {"volume_results", "atr_results", "catalyst_results",
                          "strength_results"} : symbol \in SymbolsOf(scans[list])})

\* C26: every opportunity of the ranker scores at least 3 and at most 5 for
\* the deviation plus 3 for each other scan that holds its symbol, 17 at the
\* most; a deviation symbol no other scan holds is an opportunity exactly
\* when half its deviation reaches 3.
C26_ScoreBounds ==
    IsRanking =>
        /\ \A i \in 1..Len(ret.opportunities) :
               LET o == ret.opportunities[i]
               IN  /\ o.score >= Pct(3)
                   /\ o.score <= Pct(5) + Pct(3) * OtherSignals(call.scans, o.symbol)
                   /\ o.score <= Pct(17)
        /\ \A symbol \in SymbolsOf(call.scans.deviation_results) :
               OtherSignals(call.scans, symbol) = 0 =>
                   (symbol \in SymbolsOf(ret.opportunities)
                    <=> Absolute(ItemOf(call.scans.deviation_results, symbol).deviation_pct)
                            >= Pct(6))

\* MSFT at every cap scores 17 and AAPL, 6% up on its own, exactly 3, while
\* TSLA, 5% down on its own with 2.5 points, is left out
C26_Witness ==
    /\ IsRanking
    /\ SymbolsOf(call.scans.deviation_results) = {"MSFT", "AAPL", "TSLA"}
    /\ OtherSignals(call.scans, "MSFT") = 4
    /\ OtherSignals(call.scans, "TSLA") = 0
    /\ Len(ret.opportunities) = 2
    /\ ret.opportunities[1].symbol = "MSFT"
    /\ ret.opportunities[1].score = Pct(17)
    /\ ret.opportunities[2].symbol = "AAPL"
    /\ ret.opportunities[2].score = Pct(3)

---------------------------------------------------------------------------
(* One scanner, the scans of its cycles interleaving their fetches over the *)
(* shared cache.                                                            *)

InitCycle ==
    /\ Construct(DEFAULT_ACCOUNT_SIZE, DEFAULT_MAX_DAILY_LOSS, DEFAULT_RISK_REWARD_RATIO)
    /\ market \in CycleMarkets

NextCycle ==
    \/ StartCycle
    \/ FetchNext
    \/ FinishScan

SpecCycle == InitCycle /\ [][NextCycle]_vars

---------------------------------------------------------------------------
(* C27: the scans of a cycle are independent *)

\* what the data service holds for a scan's request for a symbol, an empty
\* frame when the service fails
Served(scan, symbol) ==
    IF scan = "check_for_catalysts" THEN market[symbol].news
    ELSE IF market[symbol].fails THEN DataFrame(<<>>)
    ELSE history(symbol, requests_of(scan)[1].period, requests_of(scan)[1].interval)
\* the result of a scan run alone on a fresh scanner
Alone(scan, symbols) ==
    scan_result(scan, symbols, [s \in Range(symbols) |-> Served(scan, s)])

\* C27: whatever the order in which the five scans of a cycle fetch their
\* symbols' data through the shared cache, and whatever earlier cycles left
\* in it, each scan returns what it returns when run alone on the same data.
C27_ScansIndependent ==
    \A t \in DOMAIN threads :
        threads[t].pc = "done" =>
            threads[t].results = Alone(threads[t].scan, threads[t].symbols)

\* a cycle on TSLA and AAPL whose five scans have all returned, the
\* deviation, volume and catalyst scans with AAPL in their results, the cache
\* holding AAPL's frames under a key per period and interval
C27_Witness ==
    /\ threads # <<>>
    /\ \A t \in DOMAIN threads : threads[t].pc = "done"
    /\ \A t \in {1, 2, 4} : "AAPL" \in SymbolsOf(threads[t].results)
    /\ Len(threads[1].results) = 2
    /\ Len(threads[5].results) = 2
    /\ threads[1].symbols = <<"TSLA", "AAPL">>
    /\ cache_key("AAPL", 1, "1m", TRUE) \in DOMAIN cache
    /\ cache_key("AAPL", 30, "1d", TRUE) \in DOMAIN cache
    /\ cache[cache_key("AAPL", 1, "1d", TRUE)] # cache[cache_key("AAPL", 21, "1d", TRUE)]

---------------------------------------------------------------------------
(* C28: the risk of a plan *)

\* float comparison: an undefined value exceeds nothing
f_gt(a, b) == ~isnan(a) /\ ~isnan(b) /\ a > b

\* C28: in no emitted plan with a positive entry does potential_loss exceed
\* 50 dollars or the notional position_size * entry a quarter of the
\* account; where the stop is a number, potential_loss is position_size *
\* |entry - stop|, at most 50 dollars, and where it is not, no share is
\* bought.
C28_RiskBounded ==
    (call.op = "generate_trade_plan" /\ ret.plan # None /\ ret.plan.entry_price > 0) =>
        LET plan == ret.plan
        IN  /\ ~f_gt(plan.potential_loss, Dollars(50))
            /\ 4 * plan.position_size * plan.entry_price <= account_size
            /\ plan.position_size >= 0
            /\ IF isnan(plan.stop_loss) THEN plan.position_size = 0
               ELSE /\ plan.potential_loss
                           = plan.position_size * Absolute(plan.entry_price - plan.stop_loss)
                    /\ plan.potential_loss <= Dollars(50)

\* AAPL at 150 with the flat 3% stop on the 10,000 account: 11 shares risk
\* 49.50, a twelfth would risk 54
C28_Witness ==
    /\ call.op = "generate_trade_plan"
    /\ ret.plan # None
    /\ account_size = DEFAULT_ACCOUNT_SIZE
    /\ ret.plan.entry_price = Dollars(150)
    /\ ret.plan.stop_loss = 14550
    /\ ret.plan.position_size = 11
    /\ ret.plan.potential_loss = 4950
    /\ 12 * Absolute(ret.plan.entry_price - ret.plan.stop_loss) > Dollars(50)

---------------------------------------------------------------------------
(* C29: the stop of a plan *)

\* float comparison: an undefined value is at most nothing
f_le(a, b) == ~isnan(a) /\ ~isnan(b) /\ a <= b

\* C29: every emitted plan with a positive entry has its stop on the losing
\* side, stop_loss <= entry_price <= take_profit for a long and take_profit
\* <= entry_price <= stop_loss for a short, and stop_loss, take_profit,
\* potential_loss and potential_profit are numbers, also when the symbol has
\* bars but fewer than the 14 that ATR(14) needs.
C29_DefinedStop ==
    (call.op = "generate_trade_plan" /\ ret.plan # None /\ ret.plan.entry_price > 0) =>
        LET plan == ret.plan
        IN  /\ ~isnan(plan.stop_loss)
            /\ ~isnan(plan.take_profit)
            /\ ~isnan(plan.potential_loss)
            /\ ~isnan(plan.potential_profit)
            /\ IF plan.direction = "long"
               THEN f_le(plan.stop_loss, plan.entry_price)
                    /\ f_le(plan.entry_price, plan.take_profit)
               ELSE f_le(plan.take_profit, plan.entry_price)
                    /\ f_le(plan.entry_price, plan.stop_loss)

---------------------------------------------------------------------------
(* C30: the gate over time *)

CapClosed == daily_pnl <= -max_daily_loss
BreakerClosed == consecutive_losses >= 3
Recorded == StepOp = "record_trade_result"

\* C30: a result is recorded whether the gate is open or closed; a closed
\* gate stays closed through can_take_trade, generate_trade_plans and
\* get_trading_summary; the cap stays closed under a record with pnl <= 0 and
\* the breaker under a 'loss' record; and a closed gate opens only by
\* reset_daily_stats or by a record that is not a loss where the breaker was
\* closed and has a positive pnl lifting daily_pnl above -max_daily_loss
\* where the cap was.
C30_GateOverTime ==
    [][/\ Recorded =>
            /\ daily_pnl' = daily_pnl + call'.actual_profit_loss
            /\ Len(trades') = Len(trades) + 1
       /\ ~can_take_trade =>
            /\ StepOp \in {"can_take_trade", "generate_trade_plans", "get_trading_summary"}
                   => ~can_take_trade'
            /\ (Recorded /\ CapClosed /\ call'.actual_profit_loss <= 0) => CapClosed'
            /\ (Recorded /\ BreakerClosed /\ call'.result = "loss") => BreakerClosed'
            /\ can_take_trade' =>
                   \/ StepOp = "reset_daily_stats"
                   \/ /\ Recorded
                      /\ BreakerClosed => call'.result # "loss"
                      /\ CapClosed => /\ call'.actual_profit_loss > 0
                                      /\ daily_pnl' > -max_daily_loss]_vars

\* a fourth loss in a row recorded with both the cap and the breaker closed
C30_Witness ==
    /\ call.op = "record_trade_result"
    /\ call.result = "loss"
    /\ consecutive_losses = 4
    /\ daily_pnl = Dollars(-200)
    /\ Len(SessionTrades) = 4
    /\ ~can_take_trade

===========================================================================
